---- MODULE Spec2Model ----
(***************************************************************************)
(* A model of google/code-review-bot: the CLA compliance decision for a    *)
(* commit and a pull request (ghutil.go: IsExternal, ProcessCommit,        *)
(* checkPullRequestCompliance), the label / comment reconciliation of      *)
(* processPullRequest, the older review-verdict ProcessPullRequest, and    *)
(* the processOrgRepo loop over repositories and pull requests, and the    *)
(* functions CanonicalizeEmail, MatchAccount, IsExternal and ProcessCommit *)
(* called on arguments of their own (SpecIdentity).                        *)
(*                                                                         *)
(* The GitHub API is the environment: a read returns what the server       *)
(* holds or fails, a write succeeds (and changes the server's labels) or   *)
(* fails. Every API call a run makes is appended to log.                   *)
(***************************************************************************)
EXTENDS Integers, Sequences, FiniteSets, TLC

\* ------------------------------------------------------------------ bounds
MaxCommits == 2     \* longest commit list of a pull request
MaxRuns == 2        \* successive runs of processPullRequest on one pull request
MaxRepos == 2       \* repositories GetAllRepos returns
MaxPulls == 2       \* pull requests of one repository
MaxAccounts == 2    \* longest list of accounts MatchAccount is given
MaxLocalLen == 3    \* longest free part of an email given to CanonicalizeEmail
MaxCalls == 2       \* successive applications of CanonicalizeEmail

\* --------------------------------------------------------------- constants
LabelClaYes == "cla: yes"
LabelClaNo == "cla: no"
LabelClaExternal == "cla: external"
ReviewRequestChanges == "REQUEST_CHANGES"
ReviewApprove == "APPROVE"

ClaLabels == {LabelClaYes, LabelClaNo, LabelClaExternal}

ReasonAuthorIdentity ==
  "Please verify the author name, email, and GitHub username association are all correct and match CLA records."
ReasonCommitterIdentity ==
  "Please verify the committer name, email, and GitHub username association are all correct and match CLA records."
ReasonAuthorNotListed ==
  "Author of one or more commits is not listed as a CLA signer, either individual or as a member of an organization."
ReasonCommitterNotListed ==
  "Committer of one or more commits is not listed as a CLA signer, either individual or as a member of an organization."

\* ------------------------------------------------------------ data model
\* A Go string is a TLA+ string, except an email and a login, which are the
\* sequences of their characters (they are compared up to letter case). A
\* nil pointer is the empty sequence <<>>, a non-nil pointer the one-element
\* sequence holding what it points to.
Account(name, email, login) == [Name |-> name, Email |-> email, Login |-> login]

Company(name, people) == [Name |-> name, People |-> people]

ExternalClaSigners(people, bots, companies) ==
  [People |-> people, Bots |-> bots, Companies |-> companies]

ClaSigners(people, bots, companies, external) ==
  [People |-> people, Bots |-> bots, Companies |-> companies, External |-> external]

\* createCommit of the tests: every pointer of the commit is set.
createCommit(author, committer) ==
  [ Author |-> << author.Login >>,
    Committer |-> << committer.Login >>,
    CommitAuthor |-> << [Name |-> author.Name, Email |-> author.Email] >>,
    CommitCommitter |-> << [Name |-> committer.Name, Email |-> committer.Email] >> ]

\* A commit whose author and committer have no GitHub account associated.
createCommitNoLogins(author, committer) ==
  [ Author |-> << >>,
    Committer |-> << >>,
    CommitAuthor |-> << [Name |-> author.Name, Email |-> author.Email] >>,
    CommitCommitter |-> << [Name |-> committer.Name, Email |-> committer.Email] >> ]

AuthorLogin(c) == IF c.Author # << >> THEN c.Author[1] ELSE << >>

CommitterLogin(c) == IF c.Committer # << >> THEN c.Committer[1] ELSE << >>

\* ------------------------------------------- CanonicalizeEmail, MatchAccount
UpperCase == << "A", "B", "C", "D", "E", "F", "G", "H", "I", "J", "K", "L", "M",
               "N", "O", "P", "Q", "R", "S", "T", "U", "V", "W", "X", "Y", "Z" >>
LowerCase == << "a", "b", "c", "d", "e", "f", "g", "h", "i", "j", "k", "l", "m",
               "n", "o", "p", "q", "r", "s", "t", "u", "v", "w", "x", "y", "z" >>

\* strings.ToLower, on the ASCII characters.
ToLower(str) ==
  [i \in 1..Len(str) |->
     IF \E k \in 1..Len(UpperCase) : UpperCase[k] = str[i]
     THEN LowerCase[CHOOSE k \in 1..Len(UpperCase) : UpperCase[k] = str[i]]
     ELSE str[i]]

\* strings.EqualFold, on the ASCII characters.
EqualFold(s, t) == ToLower(s) = ToLower(t)

HasSuffix(str, suffix) ==
  /\ Len(suffix) <= Len(str)
  /\ SubSeq(str, Len(str) - Len(suffix) + 1, Len(str)) = suffix

\* strings.TrimSuffix for a suffix the string has.
TrimSuffix(str, suffix) == SubSeq(str, 1, Len(str) - Len(suffix))

\* Mutant: strings.Replace(str, ".", "", 1), the first period only.
RECURSIVE RemoveDots_firstOnly(_)
RemoveDots_firstOnly(str) ==
  IF str = << >> THEN << >>
  ELSE IF Head(str) = "." THEN Tail(str)
  ELSE << Head(str) >> \o RemoveDots_firstOnly(Tail(str))

\* strings.Replace(str, ".", "", -1)
RemoveDots(str) == SelectSeq(str, LAMBDA c : c # ".")

gmailSuffixes ==
  << << "@", "g", "m", "a", "i", "l", ".", "c", "o", "m" >>,
     << "@", "g", "o", "o", "g", "l", "e", "m", "a", "i", "l", ".", "c", "o", "m" >> >>

\* The loop of CanonicalizeEmail over gmailSuffixes, from suffix i on.
RECURSIVE CanonicalizeEmail_loop(_, _)
CanonicalizeEmail_loop(email, i) ==
  IF i > Len(gmailSuffixes) THEN email
  ELSE CanonicalizeEmail_loop(
         IF HasSuffix(email, gmailSuffixes[i])
         THEN RemoveDots(TrimSuffix(email, gmailSuffixes[i])) \o gmailSuffixes[i]
         ELSE email,
         i + 1)

\* Mutant: the email is not lower-cased.
CanonicalizeEmail_keepsCase(email) == CanonicalizeEmail_loop(email, 1)

CanonicalizeEmail(email) == CanonicalizeEmail_loop(ToLower(email), 1)

\* Mutant: the logins are compared with ==.
RECURSIVE MatchAccount_exactLogin(_, _)
MatchAccount_exactLogin(account, accounts) ==
  IF accounts = << >> THEN FALSE
  ELSE IF /\ account.Name = Head(accounts).Name
          /\ CanonicalizeEmail(account.Email) = CanonicalizeEmail(Head(accounts).Email)
          /\ account.Login = Head(accounts).Login
       THEN TRUE
       ELSE MatchAccount_exactLogin(account, Tail(accounts))

\* The loop over accounts, returning at the first match.
RECURSIVE MatchAccount(_, _)
MatchAccount(account, accounts) ==
  IF accounts = << >> THEN FALSE
  ELSE IF /\ account.Name = Head(accounts).Name
          /\ CanonicalizeEmail(account.Email) = CanonicalizeEmail(Head(accounts).Email)
          /\ EqualFold(account.Login, Head(accounts).Login)
       THEN TRUE
       ELSE MatchAccount(account, Tail(accounts))

\* ------------------------------------------------------------- IsExternal
\* Mutant: every login has to be found among the accounts.
matchLogins_everyLogin(logins, accounts) ==
  \A j \in 1..Len(logins) : \E i \in 1..Len(accounts) : logins[j] = accounts[i].Login

matchLogins(logins, accounts) ==
  \E i \in 1..Len(accounts) : \E j \in 1..Len(logins) : logins[j] = accounts[i].Login

\* Mutant: a login listed in the main roster's people settles the matter
\* before the external section is looked at.
IsExternal_peopleFirst(commit, claSigners, unknownAsExternal) ==
  LET logins == (IF AuthorLogin(commit) # << >> THEN << AuthorLogin(commit) >> ELSE << >>)
                \o (IF CommitterLogin(commit) # << >> THEN << CommitterLogin(commit) >> ELSE << >>)
      externalMatch ==
        /\ claSigners.External # << >>
        /\ LET external == claSigners.External[1] IN
             \/ matchLogins(logins, external.People)
             \/ matchLogins(logins, external.Bots)
             \/ \E k \in 1..Len(external.Companies) :
                  matchLogins(logins, external.Companies[k].People)
      claEntryFound ==
        \E k \in 1..Len(claSigners.Companies) :
          matchLogins(logins, claSigners.Companies[k].People)
  IN IF matchLogins(logins, claSigners.People) THEN FALSE
     ELSE IF externalMatch THEN TRUE
     ELSE IF /\ ~matchLogins(logins, claSigners.Bots)
             /\ ~claEntryFound
             /\ unknownAsExternal
          THEN TRUE
          ELSE FALSE

\* Mutant: unknownAsExternal is not looked at.
IsExternal_ignoresUnknownAsExternal(commit, claSigners, unknownAsExternal) ==
  LET logins == (IF AuthorLogin(commit) # << >> THEN << AuthorLogin(commit) >> ELSE << >>)
                \o (IF CommitterLogin(commit) # << >> THEN << CommitterLogin(commit) >> ELSE << >>)
  IN /\ claSigners.External # << >>
     /\ LET external == claSigners.External[1] IN
          \/ matchLogins(logins, external.People)
          \/ matchLogins(logins, external.Bots)
          \/ \E k \in 1..Len(external.Companies) :
               matchLogins(logins, external.Companies[k].People)

\* Mutant: unknownAsExternal applies only to a commit with a login.
IsExternal_needsLogin(commit, claSigners, unknownAsExternal) ==
  LET logins == (IF AuthorLogin(commit) # << >> THEN << AuthorLogin(commit) >> ELSE << >>)
                \o (IF CommitterLogin(commit) # << >> THEN << CommitterLogin(commit) >> ELSE << >>)
      externalMatch ==
        /\ claSigners.External # << >>
        /\ LET external == claSigners.External[1] IN
             \/ matchLogins(logins, external.People)
             \/ matchLogins(logins, external.Bots)
             \/ \E k \in 1..Len(external.Companies) :
                  matchLogins(logins, external.Companies[k].People)
      claEntryFound ==
        \E k \in 1..Len(claSigners.Companies) :
          matchLogins(logins, claSigners.Companies[k].People)
  IN IF externalMatch THEN TRUE
     ELSE IF /\ ~matchLogins(logins, claSigners.People)
             /\ ~matchLogins(logins, claSigners.Bots)
             /\ ~claEntryFound
             /\ unknownAsExternal
             /\ logins # << >>
          THEN TRUE
          ELSE FALSE

IsExternal(commit, claSigners, unknownAsExternal) ==
  LET logins == (IF AuthorLogin(commit) # << >> THEN << AuthorLogin(commit) >> ELSE << >>)
                \o (IF CommitterLogin(commit) # << >> THEN << CommitterLogin(commit) >> ELSE << >>)
      externalMatch ==
        /\ claSigners.External # << >>
        /\ LET external == claSigners.External[1] IN
             \/ matchLogins(logins, external.People)
             \/ matchLogins(logins, external.Bots)
             \/ \E k \in 1..Len(external.Companies) :
                  matchLogins(logins, external.Companies[k].People)
      claEntryFound ==
        \E k \in 1..Len(claSigners.Companies) :
          matchLogins(logins, claSigners.Companies[k].People)
  IN IF externalMatch THEN TRUE
     ELSE IF /\ ~matchLogins(logins, claSigners.People)
             /\ ~matchLogins(logins, claSigners.Bots)
             /\ ~claEntryFound
             /\ unknownAsExternal
          THEN TRUE
          ELSE FALSE

\* ---------------------------------------------------------- ProcessCommit
\* The closure matchAccount of ProcessCommit: the three fields compared
\* with ==.
ProcessCommit_matchAccount(account, accounts) ==
  \E i \in 1..Len(accounts) :
    /\ account.Name = accounts[i].Name
    /\ account.Email = accounts[i].Email
    /\ account.Login = accounts[i].Login

CommitStatus(compliant, reason, external) ==
  [Compliant |-> compliant, NonComplianceReason |-> reason, External |-> external]

\* Mutants of ProcessCommit: "authorIdentityLast" checks the author's
\* identity after the committer's, "authorListedLast" reports on the author
\* after the committer, "authorBots" looks for the author among the bots.
ProcessCommit_variant(commit, claSigners, variant) ==
  LET authorLogin == AuthorLogin(commit)
      committerLogin == CommitterLogin(commit)
      authorName == IF commit.CommitAuthor # << >> THEN commit.CommitAuthor[1].Name ELSE ""
      authorEmail == IF commit.CommitAuthor # << >> THEN commit.CommitAuthor[1].Email ELSE << >>
      committerName == IF commit.CommitCommitter # << >> THEN commit.CommitCommitter[1].Name ELSE ""
      committerEmail == IF commit.CommitCommitter # << >> THEN commit.CommitCommitter[1].Email ELSE << >>
      authorIncomplete == authorName = "" \/ authorEmail = << >> \/ authorLogin = << >>
      committerIncomplete == committerName = "" \/ committerEmail = << >> \/ committerLogin = << >>
      compliant1 == ~authorIncomplete /\ ~committerIncomplete
      reason1 == IF variant = "authorIdentityLast"
                 THEN IF authorIncomplete THEN ReasonAuthorIdentity
                      ELSE IF committerIncomplete THEN ReasonCommitterIdentity
                      ELSE ""
                 ELSE IF committerIncomplete THEN ReasonCommitterIdentity
                      ELSE IF authorIncomplete THEN ReasonAuthorIdentity
                      ELSE ""
      author == Account(authorName, authorEmail, authorLogin)
      committer == Account(committerName, committerEmail, committerLogin)
      authorClaMatchFound ==
        \/ ProcessCommit_matchAccount(author, claSigners.People)
        \/ variant = "authorBots" /\ ProcessCommit_matchAccount(author, claSigners.Bots)
        \/ \E k \in 1..Len(claSigners.Companies) :
             ProcessCommit_matchAccount(author, claSigners.Companies[k].People)
      committerClaMatchFound ==
        \/ ProcessCommit_matchAccount(committer, claSigners.People)
        \/ ProcessCommit_matchAccount(committer, claSigners.Bots)
        \/ \E k \in 1..Len(claSigners.Companies) :
             ProcessCommit_matchAccount(committer, claSigners.Companies[k].People)
      reason2 == IF variant = "authorListedLast"
                 THEN IF ~authorClaMatchFound THEN ReasonAuthorNotListed
                      ELSE IF ~committerClaMatchFound THEN ReasonCommitterNotListed
                      ELSE reason1
                 ELSE IF ~committerClaMatchFound THEN ReasonCommitterNotListed
                      ELSE IF ~authorClaMatchFound THEN ReasonAuthorNotListed
                      ELSE reason1
  IN IF compliant1
     THEN CommitStatus(authorClaMatchFound /\ committerClaMatchFound, reason2, FALSE)
     ELSE CommitStatus(FALSE, reason1, FALSE)

ProcessCommit_authorIdentityLast(commit, claSigners) ==
  ProcessCommit_variant(commit, claSigners, "authorIdentityLast")

ProcessCommit_authorListedLast(commit, claSigners) ==
  ProcessCommit_variant(commit, claSigners, "authorListedLast")

ProcessCommit_authorBots(commit, claSigners) ==
  ProcessCommit_variant(commit, claSigners, "authorBots")

ProcessCommit(commit, claSigners) ==
  LET authorLogin == AuthorLogin(commit)
      committerLogin == CommitterLogin(commit)
      authorName == IF commit.CommitAuthor # << >> THEN commit.CommitAuthor[1].Name ELSE ""
      authorEmail == IF commit.CommitAuthor # << >> THEN commit.CommitAuthor[1].Email ELSE << >>
      committerName == IF commit.CommitCommitter # << >> THEN commit.CommitCommitter[1].Name ELSE ""
      committerEmail == IF commit.CommitCommitter # << >> THEN commit.CommitCommitter[1].Email ELSE << >>
      authorIncomplete == authorName = "" \/ authorEmail = << >> \/ authorLogin = << >>
      committerIncomplete == committerName = "" \/ committerEmail = << >> \/ committerLogin = << >>
      \* the status after the two identity checks
      compliant1 == ~authorIncomplete /\ ~committerIncomplete
      reason1 == IF committerIncomplete THEN ReasonCommitterIdentity
                 ELSE IF authorIncomplete THEN ReasonAuthorIdentity
                 ELSE ""
      author == Account(authorName, authorEmail, authorLogin)
      committer == Account(committerName, committerEmail, committerLogin)
      authorClaMatchFound ==
        \/ ProcessCommit_matchAccount(author, claSigners.People)
        \/ \E k \in 1..Len(claSigners.Companies) :
             ProcessCommit_matchAccount(author, claSigners.Companies[k].People)
      committerClaMatchFound ==
        \/ ProcessCommit_matchAccount(committer, claSigners.People)
        \/ ProcessCommit_matchAccount(committer, claSigners.Bots)
        \/ \E k \in 1..Len(claSigners.Companies) :
             ProcessCommit_matchAccount(committer, claSigners.Companies[k].People)
      reason2 == IF ~committerClaMatchFound THEN ReasonCommitterNotListed
                 ELSE IF ~authorClaMatchFound THEN ReasonAuthorNotListed
                 ELSE reason1
  IN IF compliant1
     THEN CommitStatus(authorClaMatchFound /\ committerClaMatchFound, reason2, FALSE)
     ELSE CommitStatus(FALSE, reason1, FALSE)

\* ---------------------------------------------- checkPullRequestCompliance
PullRequestStatus(compliant, reason, external) ==
  [Compliant |-> compliant, NonComplianceReason |-> reason, External |-> external]

NoError == "nil"
ListCommitsError == "ListCommits failed"

\* The loop over the commits, from commit i on, with the status so far.
RECURSIVE checkPullRequestCompliance_loop(_, _, _, _, _)
checkPullRequestCompliance_loop(commits, i, status, claSigners, unknownAsExternal) ==
  IF i > Len(commits) THEN status
  ELSE IF IsExternal(commits[i], claSigners, unknownAsExternal)
       THEN [status EXCEPT !.External = TRUE]
       ELSE LET commitStatus == ProcessCommit(commits[i], claSigners) IN
            checkPullRequestCompliance_loop(commits, i + 1,
              IF commitStatus.Compliant THEN status
              ELSE [status EXCEPT !.NonComplianceReason = commitStatus.NonComplianceReason,
                                  !.Compliant = FALSE],
              claSigners, unknownAsExternal)

\* Mutant: the reason of the first non-compliant commit is kept.
RECURSIVE checkPullRequestCompliance_loop_firstReason(_, _, _, _, _)
checkPullRequestCompliance_loop_firstReason(commits, i, status, claSigners, unknownAsExternal) ==
  IF i > Len(commits) THEN status
  ELSE IF IsExternal(commits[i], claSigners, unknownAsExternal)
       THEN [status EXCEPT !.External = TRUE]
       ELSE LET commitStatus == ProcessCommit(commits[i], claSigners) IN
            checkPullRequestCompliance_loop_firstReason(commits, i + 1,
              IF commitStatus.Compliant THEN status
              ELSE IF ~status.Compliant THEN status
              ELSE [status EXCEPT !.NonComplianceReason = commitStatus.NonComplianceReason,
                                  !.Compliant = FALSE],
              claSigners, unknownAsExternal)

checkPullRequestCompliance_firstReason(listed, claSigners, unknownAsExternal) ==
  IF ~listed.ok
  THEN [status |-> [Compliant |-> FALSE, NonComplianceReason |-> "", External |-> FALSE],
        err |-> "ListCommits failed"]
  ELSE [status |-> checkPullRequestCompliance_loop_firstReason(listed.commits, 1,
                     [Compliant |-> TRUE, NonComplianceReason |-> "", External |-> FALSE],
                     claSigners, unknownAsExternal),
        err |-> "nil"]

\* Mutant: the error of ListCommits is not returned.
checkPullRequestCompliance_swallowsError(listed, claSigners, unknownAsExternal) ==
  [status |-> checkPullRequestCompliance_loop(
                IF listed.ok THEN listed.commits ELSE << >>, 1,
                [Compliant |-> listed.ok, NonComplianceReason |-> "", External |-> FALSE],
                claSigners, unknownAsExternal),
   err |-> "nil"]

\* Mutant: a pull request without commits is not compliant.
checkPullRequestCompliance_needsCommit(listed, claSigners, unknownAsExternal) ==
  IF ~listed.ok
  THEN [status |-> [Compliant |-> FALSE, NonComplianceReason |-> "", External |-> FALSE],
        err |-> "ListCommits failed"]
  ELSE [status |-> checkPullRequestCompliance_loop(listed.commits, 1,
                     [Compliant |-> Len(listed.commits) > 0, NonComplianceReason |-> "",
                      External |-> FALSE],
                     claSigners, unknownAsExternal),
        err |-> "nil"]

\* Mutant: every commit is evaluated and the external flags are OR-ed.
RECURSIVE checkPullRequestCompliance_loop_fullScan(_, _, _, _, _)
checkPullRequestCompliance_loop_fullScan(commits, i, status, claSigners, unknownAsExternal) ==
  IF i > Len(commits) THEN status
  ELSE IF IsExternal(commits[i], claSigners, unknownAsExternal)
       THEN checkPullRequestCompliance_loop_fullScan(commits, i + 1,
              [status EXCEPT !.External = TRUE], claSigners, unknownAsExternal)
       ELSE LET commitStatus == ProcessCommit(commits[i], claSigners) IN
            checkPullRequestCompliance_loop_fullScan(commits, i + 1,
              IF commitStatus.Compliant THEN status
              ELSE [status EXCEPT !.NonComplianceReason = commitStatus.NonComplianceReason,
                                  !.Compliant = FALSE],
              claSigners, unknownAsExternal)

checkPullRequestCompliance_fullScan(listed, claSigners, unknownAsExternal) ==
  IF ~listed.ok
  THEN [status |-> [Compliant |-> FALSE, NonComplianceReason |-> "", External |-> FALSE],
        err |-> "ListCommits failed"]
  ELSE [status |-> checkPullRequestCompliance_loop_fullScan(listed.commits, 1,
                     [Compliant |-> TRUE, NonComplianceReason |-> "", External |-> FALSE],
                     claSigners, unknownAsExternal),
        err |-> "nil"]

\* listed is what ListCommits returns: [ok, commits].
checkPullRequestCompliance(listed, claSigners, unknownAsExternal) ==
  IF ~listed.ok
  THEN [status |-> PullRequestStatus(FALSE, "", FALSE), err |-> ListCommitsError]
  ELSE [status |-> checkPullRequestCompliance_loop(listed.commits, 1,
                     PullRequestStatus(TRUE, "", FALSE), claSigners, unknownAsExternal),
        err |-> NoError]

\* The CheckPullRequestCompliance of the review-verdict version: no external
\* classification, the result is (compliant, reason, err).
RECURSIVE CheckPullRequestCompliance_review_loop(_, _, _, _)
CheckPullRequestCompliance_review_loop(commits, i, status, claSigners) ==
  IF i > Len(commits) THEN status
  ELSE LET commitStatus == ProcessCommit(commits[i], claSigners) IN
       CheckPullRequestCompliance_review_loop(commits, i + 1,
         IF commitStatus.Compliant THEN status
         ELSE [status EXCEPT !.NonComplianceReason = commitStatus.NonComplianceReason,
                             !.Compliant = FALSE],
         claSigners)

CheckPullRequestCompliance_review(listed, claSigners) ==
  IF ~listed.ok
  THEN [status |-> PullRequestStatus(FALSE, "", FALSE), err |-> ListCommitsError]
  ELSE [status |-> CheckPullRequestCompliance_review_loop(listed.commits, 1,
                     PullRequestStatus(TRUE, "", FALSE), claSigners),
        err |-> NoError]

\* --------------------------------------------------------- label statuses
ClaLabelStatus(hasYes, hasNo, hasExternal) ==
  [HasYes |-> hasYes, HasNo |-> hasNo, HasExternal |-> hasExternal]

LabelStatuses == [HasYes : BOOLEAN, HasNo : BOOLEAN, HasExternal : BOOLEAN]

\* getIssueClaLabelStatus, given whether ListLabelsByIssue succeeded and the
\* labels it returned: on an error the zero status is returned.
getIssueClaLabelStatus(ok, labels) ==
  IF ~ok THEN ClaLabelStatus(FALSE, FALSE, FALSE)
  ELSE ClaLabelStatus(LabelClaYes \in labels, LabelClaNo \in labels,
                      LabelClaExternal \in labels)

\* getRepoClaLabelStatus, given the labels the repository defines and the
\* labels whose GetLabel call failed.
getRepoClaLabelStatus(defined, failed) ==
  ClaLabelStatus(LabelClaYes \in defined \ failed, LabelClaNo \in defined \ failed,
                 LabelClaExternal \in defined \ failed)

\* ------------------------------------------- processPullRequest: decisions
\* A call of one of the closures addLabel, removeLabel, addComment, addReview.
Op(op, arg, body) == [op |-> op, arg |-> arg, body |-> body]

When(cond, ops) == IF cond THEN ops ELSE << >>

\* Mutant: 'cla: no' is left on an external pull request.
processPullRequest_external_keepsNo(issue, repo) ==
  When(~issue.HasExternal /\ repo.HasExternal, << Op("addLabel", LabelClaExternal, "") >>)
  \o When(issue.HasYes, << Op("removeLabel", LabelClaYes, "") >>)

\* if pullRequestStatus.External { ... return nil }
processPullRequest_external(issue, repo) ==
  When(~issue.HasExternal /\ repo.HasExternal, << Op("addLabel", LabelClaExternal, "") >>)
  \o When(issue.HasYes, << Op("removeLabel", LabelClaYes, "") >>)
  \o When(issue.HasNo, << Op("removeLabel", LabelClaNo, "") >>)

\* Mutant: 'cla: no' is left on a compliant pull request.
processPullRequest_compliant_keepsNo(issue, repo) ==
  When(~issue.HasYes /\ repo.HasYes, << Op("addLabel", LabelClaYes, "") >>)

\* Mutant: 'cla: yes' is added without asking whether the repository has it.
processPullRequest_compliant_noRepoCheck(issue, repo) ==
  When(issue.HasNo, << Op("removeLabel", LabelClaNo, "") >>)
  \o When(~issue.HasYes, << Op("addLabel", LabelClaYes, "") >>)

\* if pullRequestStatus.Compliant { ... }
processPullRequest_compliant(issue, repo) ==
  When(issue.HasNo, << Op("removeLabel", LabelClaNo, "") >>)
  \o When(~issue.HasYes /\ repo.HasYes, << Op("addLabel", LabelClaYes, "") >>)

\* Mutant: 'cla: yes' is left on a non-compliant pull request.
processPullRequest_nonCompliant_keepsYes(reason, issue, repo) ==
  When(~issue.HasNo /\ repo.HasNo, << Op("addLabel", LabelClaNo, "") >>)
  \o When(~issue.HasNo, << Op("addComment", "", reason) >>)

\* else /* !pullRequestIsCompliant */ { ... }
processPullRequest_nonCompliant(reason, issue, repo) ==
  LET shouldAddComment == ~issue.HasNo \/ issue.HasYes IN
  When(~issue.HasNo /\ repo.HasNo, << Op("addLabel", LabelClaNo, "") >>)
  \o When(issue.HasYes, << Op("removeLabel", LabelClaYes, "") >>)
  \o When(shouldAddComment, << Op("addComment", "", reason) >>)

\* Mutant: 'cla: external' stays on a pull request that is not external.
processPullRequest_calls_keepsExternal(status, issue, repo) ==
  IF status.External
  THEN processPullRequest_external(issue, repo)
  ELSE IF status.Compliant
       THEN processPullRequest_compliant(issue, repo)
       ELSE processPullRequest_nonCompliant(status.NonComplianceReason, issue, repo)

\* The closure calls processPullRequest makes after reading the labels, in
\* order. Its conditions read only the three statuses, which no closure
\* changes, so the calls are decided here and made one by one afterwards.
processPullRequest_calls(status, issue, repo) ==
  IF status.External
  THEN processPullRequest_external(issue, repo)
  ELSE When(issue.HasExternal, << Op("removeLabel", LabelClaExternal, "") >>)
       \o (IF status.Compliant
           THEN processPullRequest_compliant(issue, repo)
           ELSE processPullRequest_nonCompliant(status.NonComplianceReason, issue, repo))

\* Mutant: the review is submitted only along with a label change.
ProcessPullRequest_review_calls_onLabelChange(status, issue) ==
  IF status.Compliant
  THEN When(issue.HasNo, << Op("removeLabel", LabelClaNo, "") >>)
       \o When(~issue.HasYes, << Op("addLabel", LabelClaYes, "") >>)
       \o When(issue.HasNo \/ ~issue.HasYes,
               << Op("addReview", ReviewApprove, status.NonComplianceReason) >>)
  ELSE When(~issue.HasNo, << Op("addLabel", LabelClaNo, "") >>)
       \o When(issue.HasYes, << Op("removeLabel", LabelClaYes, "") >>)
       \o When(~issue.HasNo \/ issue.HasYes,
               << Op("addReview", ReviewRequestChanges, status.NonComplianceReason) >>)

\* The review-verdict ProcessPullRequest, inside
\* if repoClaLabelStatus.HasYes && repoClaLabelStatus.HasNo { ... }
ProcessPullRequest_review_calls(status, issue) ==
  IF status.Compliant
  THEN When(issue.HasNo, << Op("removeLabel", LabelClaNo, "") >>)
       \o When(~issue.HasYes, << Op("addLabel", LabelClaYes, "") >>)
       \o << Op("addReview", ReviewApprove, status.NonComplianceReason) >>
  ELSE When(~issue.HasNo, << Op("addLabel", LabelClaNo, "") >>)
       \o When(issue.HasYes, << Op("removeLabel", LabelClaYes, "") >>)
       \o << Op("addReview", ReviewRequestChanges, status.NonComplianceReason) >>

\* ------------------------------------------------ the roster and the commits
Email_john == << "j", "o", "@", "x", ".", "c" >>
Email_jane == << "j", "a", "@", "x", ".", "c" >>
Email_bot == << "b", "@", "x", ".", "c" >>
Email_carol == << "c", "@", "a", ".", "c" >>
Email_eve == << "e", "@", "y", ".", "c" >>

Login_john == << "j", "d" >>
Login_jane == << "j", "a" >>
Login_bot == << "b", "o", "t" >>
Login_carol == << "c", "a" >>
Login_eve == << "e", "v" >>

john == Account("John Doe", Email_john, Login_john)
jane == Account("Jane Doe", Email_jane, Login_jane)
bot == Account("Bot", Email_bot, Login_bot)
carol == Account("Carol", Email_carol, Login_carol)
eve == Account("Eve", Email_eve, Login_eve)

\* john signed in person, carol through her company, bot is a bot, eve's CLA
\* is managed externally; jane is in no section.
Roster ==
  ClaSigners(<< john >>, << bot >>, << Company("Acme", << carol >>) >>,
             << ExternalClaSigners(<< eve >>, << >>, << >>) >>)

\* compliant; committer not listed; no GitHub account on either side;
\* externally managed
Commits ==
  { createCommit(john, john), createCommit(john, jane),
    createCommitNoLogins(jane, jane), createCommit(eve, eve) }

CommitLists == UNION { [1..n -> Commits] : n \in 0..MaxCommits }

\* What ListCommits can answer for a pull request.
ListCommitsResults ==
  { [ok |-> TRUE, commits |-> cs] : cs \in CommitLists }
  \cup { [ok |-> FALSE, commits |-> << >>] }

\* ------------------------------------------------------------------ state
VARIABLES
  mode,                 \* "comment": processPullRequest; "review": the review-verdict ProcessPullRequest
  prSpec,               \* GitHubProcessSinglePullSpec of the call in progress
  repoClaLabelStatus,   \* RepoClaLabelStatus passed to the call
  listed,               \* server: what ListCommits answers for the pull request
  prLabels,             \* server: the labels on the pull request
  pc,                   \* where the program is
  run,                  \* number of the run of processPullRequest on this pull request
  pullRequestStatus,    \* result of CheckPullRequestCompliance
  err,                  \* error of CheckPullRequestCompliance / ProcessPullRequest
  issueClaLabelStatus,  \* result of GetIssueClaLabelStatus
  decided,              \* the closure calls of this run, in order
  done,                 \* how many of them have been made
  log,                  \* the API calls of this run, in order
  prevLog,              \* the API calls of the previous run on this pull request
  repoSpec,             \* GitHubProcessOrgRepoSpec
  server,               \* server: the repositories of the organization
  repos,                \* result of GetAllRepos
  ri,                   \* index of the repository being processed
  pulls,                \* the pull requests collected for that repository
  pi,                   \* index of the pull request being processed
  processed,            \* the ProcessPullRequest calls that returned, in order
  orgLog,               \* the API calls of processOrgRepo itself, in order
  fn,                   \* the function called on its own: IsExternal, ProcessCommit, ...
  commit,               \* its arguments: the commit,
  claSigners,           \*   the roster,
  unknownAsExternal,    \*   the flag of IsExternal,
  account,              \*   the account MatchAccount looks for,
  accounts,             \*   the accounts it looks in,
  email,                \*   the email to canonicalize
  calls,                \* how many times the function has been called
  result                \* what the last call returned

prVars == << prSpec, repoClaLabelStatus, listed, prLabels, pc, run, pullRequestStatus,
             err, issueClaLabelStatus, decided, done, log, prevLog >>
prVars_but_pc == << prSpec, repoClaLabelStatus, listed, prLabels, run, pullRequestStatus,
                    err, issueClaLabelStatus, decided, done, log, prevLog >>
orgVars == << repoSpec, server, repos, ri, pulls, pi, processed, orgLog >>
fnArgs == << fn, commit, claSigners, unknownAsExternal, account, accounts, email >>
fnVars == << fn, commit, claSigners, unknownAsExternal, account, accounts, email,
             calls, result >>
vars == << mode, prVars, orgVars, fnVars >>

Call(api, arg, body, ok) == [api |-> api, arg |-> arg, body |-> body, ok |-> ok]

SinglePullSpec(repo, pull, updateRepo, unknown) ==
  [Repo |-> repo, Pull |-> pull, UpdateRepo |-> updateRepo,
   UnknownAsExternal |-> unknown]

ZeroStatus == PullRequestStatus(FALSE, "", FALSE)
ZeroLabelStatus == ClaLabelStatus(FALSE, FALSE, FALSE)

\* ------------------------------------------- processPullRequest: the steps
\* pullRequestStatus, err := ghc.CheckPullRequestCompliance(...); if err != nil { return err }
CallCheckPullRequestCompliance ==
  /\ pc = "check" /\ mode = "comment"
  /\ LET r == checkPullRequestCompliance(listed, Roster, prSpec.UnknownAsExternal) IN
       /\ log' = Append(log, Call("ListCommits", "", "", listed.ok))
       /\ pullRequestStatus' = r.status
       /\ err' = r.err
       /\ pc' = IF r.err # NoError THEN "return" ELSE "labels"
  /\ UNCHANGED << mode, fnVars, prSpec, repoClaLabelStatus, listed, prLabels, run,
                  issueClaLabelStatus, decided, done, prevLog, orgVars >>

\* The same call in the review-verdict version, followed by
\* if repoClaLabelStatus.HasYes && repoClaLabelStatus.HasNo { ... } return nil
CallCheckPullRequestCompliance_review ==
  /\ pc = "check" /\ mode = "review"
  /\ LET r == CheckPullRequestCompliance_review(listed, Roster) IN
       /\ log' = Append(log, Call("ListCommits", "", "", listed.ok))
       /\ pullRequestStatus' = r.status
       /\ err' = r.err
       /\ pc' = IF r.err # NoError THEN "return"
                ELSE IF repoClaLabelStatus.HasYes /\ repoClaLabelStatus.HasNo THEN "labels"
                ELSE "return"
  /\ UNCHANGED << mode, fnVars, prSpec, repoClaLabelStatus, listed, prLabels, run,
                  issueClaLabelStatus, decided, done, prevLog, orgVars >>

\* issueClaLabelStatus := ghc.GetIssueClaLabelStatus(...): ListLabelsByIssue
\* answers with the labels on the pull request, or fails.
CallGetIssueClaLabelStatus ==
  /\ pc = "labels"
  /\ \E ok \in BOOLEAN :
       /\ log' = Append(log, Call("ListLabelsByIssue", "", "", ok))
       /\ issueClaLabelStatus' = getIssueClaLabelStatus(ok, prLabels)
  /\ pc' = "decide"
  /\ UNCHANGED << mode, fnVars, prSpec, repoClaLabelStatus, listed, prLabels, run,
                  pullRequestStatus, err, decided, done, prevLog, orgVars >>

\* The branches of processPullRequest after the labels are read.
processPullRequest_branches ==
  /\ pc = "decide"
  /\ decided' = IF mode = "comment"
                THEN processPullRequest_calls(pullRequestStatus, issueClaLabelStatus,
                                              repoClaLabelStatus)
                ELSE ProcessPullRequest_review_calls(pullRequestStatus, issueClaLabelStatus)
  /\ done' = 0
  /\ pc' = "apply"
  /\ UNCHANGED << mode, fnVars, prSpec, repoClaLabelStatus, listed, prLabels, run,
                  pullRequestStatus, err, issueClaLabelStatus, log, prevLog, orgVars >>

NextOp == decided[done + 1]

\* Mutant: addLabel does not look at updateRepo.
addLabel_ignoresUpdateRepo ==
  /\ pc = "apply" /\ done < Len(decided) /\ NextOp.op = "addLabel"
  /\ \E ok \in BOOLEAN :
       /\ log' = Append(log, Call("AddLabelsToIssue", NextOp.arg, "", ok))
       /\ prLabels' = IF ok THEN prLabels \cup { NextOp.arg } ELSE prLabels
  /\ done' = done + 1
  /\ UNCHANGED << mode, fnVars, prSpec, repoClaLabelStatus, listed, pc, run, pullRequestStatus,
                  err, issueClaLabelStatus, decided, prevLog, orgVars >>

\* The closures. With updateRepo they call the API, which may fail; the
\* error is logged and dropped.
addLabel ==
  /\ pc = "apply" /\ done < Len(decided) /\ NextOp.op = "addLabel"
  /\ IF prSpec.UpdateRepo
     THEN \E ok \in BOOLEAN :
            /\ log' = Append(log, Call("AddLabelsToIssue", NextOp.arg, "", ok))
            /\ prLabels' = IF ok THEN prLabels \cup { NextOp.arg } ELSE prLabels
     ELSE UNCHANGED << log, prLabels >>
  /\ done' = done + 1
  /\ UNCHANGED << mode, fnVars, prSpec, repoClaLabelStatus, listed, pc, run, pullRequestStatus,
                  err, issueClaLabelStatus, decided, prevLog, orgVars >>

\* Mutant: a failed removal makes processPullRequest return the error.
removeLabel_returnsError ==
  /\ pc = "apply" /\ done < Len(decided) /\ NextOp.op = "removeLabel"
  /\ IF prSpec.UpdateRepo
     THEN \E ok \in BOOLEAN :
            /\ log' = Append(log, Call("RemoveLabelForIssue", NextOp.arg, "", ok))
            /\ prLabels' = IF ok THEN prLabels \ { NextOp.arg } ELSE prLabels
            /\ IF ok THEN done' = done + 1 /\ UNCHANGED << pc, err >>
                     ELSE done' = done /\ pc' = "return"
                          /\ err' = "RemoveLabelForIssue failed"
     ELSE done' = done + 1 /\ UNCHANGED << log, prLabels, pc, err >>
  /\ UNCHANGED << mode, fnVars, prSpec, repoClaLabelStatus, listed, run, pullRequestStatus,
                  issueClaLabelStatus, decided, prevLog, orgVars >>

removeLabel ==
  /\ pc = "apply" /\ done < Len(decided) /\ NextOp.op = "removeLabel"
  /\ IF prSpec.UpdateRepo
     THEN \E ok \in BOOLEAN :
            /\ log' = Append(log, Call("RemoveLabelForIssue", NextOp.arg, "", ok))
            /\ prLabels' = IF ok THEN prLabels \ { NextOp.arg } ELSE prLabels
     ELSE UNCHANGED << log, prLabels >>
  /\ done' = done + 1
  /\ UNCHANGED << mode, fnVars, prSpec, repoClaLabelStatus, listed, pc, run, pullRequestStatus,
                  err, issueClaLabelStatus, decided, prevLog, orgVars >>

addComment ==
  /\ pc = "apply" /\ done < Len(decided) /\ NextOp.op = "addComment"
  /\ IF prSpec.UpdateRepo
     THEN \E ok \in BOOLEAN :
            log' = Append(log, Call("CreateComment", "", NextOp.body, ok))
     ELSE UNCHANGED log
  /\ done' = done + 1
  /\ UNCHANGED << mode, fnVars, prSpec, repoClaLabelStatus, listed, prLabels, pc, run,
                  pullRequestStatus, err, issueClaLabelStatus, decided, prevLog, orgVars >>

addReview ==
  /\ pc = "apply" /\ done < Len(decided) /\ NextOp.op = "addReview"
  /\ IF prSpec.UpdateRepo
     THEN \E ok \in BOOLEAN :
            log' = Append(log, Call("CreateReview", NextOp.arg, NextOp.body, ok))
     ELSE UNCHANGED log
  /\ done' = done + 1
  /\ UNCHANGED << mode, fnVars, prSpec, repoClaLabelStatus, listed, prLabels, pc, run,
                  pullRequestStatus, err, issueClaLabelStatus, decided, prevLog, orgVars >>

\* return nil
processPullRequest_return ==
  /\ pc = "apply" /\ done = Len(decided)
  /\ err' = NoError
  /\ pc' = "return"
  /\ UNCHANGED << mode, fnVars, prSpec, repoClaLabelStatus, listed, prLabels, run,
                  pullRequestStatus, issueClaLabelStatus, decided, done, log, prevLog,
                  orgVars >>

ProcessPullRequest ==
  \/ CallCheckPullRequestCompliance
  \/ CallCheckPullRequestCompliance_review
  \/ CallGetIssueClaLabelStatus
  \/ processPullRequest_branches
  \/ addLabel
  \/ removeLabel
  \/ addComment
  \/ addReview
  \/ processPullRequest_return

\* ------------------------------- one pull request, processed run after run
\* The caller of the tests' runProcessPullRequestTestScenario, with the real
\* CheckPullRequestCompliance and GetIssueClaLabelStatus: the pull request's
\* commits and the repository's label status stay as they are, the labels
\* on the pull request are what the previous run left.
RunAgain ==
  /\ pc = "return" /\ run < MaxRuns
  /\ run' = run + 1
  /\ prevLog' = log
  /\ log' = << >>
  /\ pullRequestStatus' = ZeroStatus
  /\ issueClaLabelStatus' = ZeroLabelStatus
  /\ err' = NoError
  /\ decided' = << >>
  /\ done' = 0
  /\ pc' = "check"
  /\ UNCHANGED << mode, fnVars, prSpec, repoClaLabelStatus, listed, prLabels, orgVars >>

\* No function is called on its own: the roster is the one of the run.
NoFunctionCall ==
  /\ fn = "none"
  /\ commit = createCommit(john, john)
  /\ claSigners = Roster
  /\ unknownAsExternal = FALSE
  /\ account = john
  /\ accounts = << >>
  /\ email = << >>
  /\ calls = 0
  /\ result = FALSE

NoRepoSpec ==
  [Org |-> "org", Repo |-> "", Pulls |-> << >>, UpdateRepo |-> FALSE,
   UnknownAsExternal |-> FALSE]

Init ==
  /\ mode \in { "comment", "review" }
  /\ \E updateRepo \in BOOLEAN, unknown \in BOOLEAN :
       prSpec = SinglePullSpec("repo", 42, updateRepo,
                               IF mode = "comment" THEN unknown ELSE FALSE)
  /\ repoClaLabelStatus \in LabelStatuses
  /\ listed \in ListCommitsResults
  /\ prLabels \in SUBSET ClaLabels
  /\ pc = "check"
  /\ run = 1
  /\ pullRequestStatus = ZeroStatus
  /\ issueClaLabelStatus = ZeroLabelStatus
  /\ err = NoError
  /\ decided = << >>
  /\ done = 0
  /\ log = << >>
  /\ prevLog = << >>
  /\ repoSpec = NoRepoSpec
  /\ server = << >>
  /\ repos = << >>
  /\ ri = 0
  /\ pulls = << >>
  /\ pi = 0
  /\ processed = << >>
  /\ orgLog = << >>
  /\ NoFunctionCall

Next == ProcessPullRequest \/ RunAgain

Spec == Init /\ [][Next]_vars

\* ------------------------------------------------------------ processOrgRepo
\* The server: repositories "r1", "r2", ..., each with its open pull
\* requests (their numbers) and the labels it defines.
RepoName(i) == CASE i = 1 -> "r1" [] i = 2 -> "r2" [] i = 3 -> "r3" [] OTHER -> "r4"

Repository(name, pullNumbers, labels) ==
  [Name |-> name, pulls |-> pullNumbers, labels |-> labels]

Servers ==
  UNION { { [i \in 1..n |-> Repository(RepoName(i), [j \in 1..k[i] |-> j], ClaLabels)] :
              k \in [1..n -> 0..MaxPulls] } : n \in 1..MaxRepos }

\* repoSpec.Pulls: none given, two that may exist, one that may and one that
\* cannot exist.
PullsGiven == { << >>, << 2, 1 >>, << 1, MaxPulls + 1 >> }

\* What the server answers for the pull requests processOrgRepo processes.
OrgListCommitsResults ==
  { [ok |-> TRUE, commits |-> << createCommit(john, jane) >>],
    [ok |-> FALSE, commits |-> << >>] }

OrgPrLabels == { { }, { LabelClaYes } }

\* <<UpdateRepo, UnknownAsExternal>> of repoSpec.
OrgFlags == { << TRUE, FALSE >>, << FALSE, TRUE >> }

\* The labels whose GetLabel call fails.
OrgGetLabelFailures == { { }, { LabelClaNo } }

\* getAllRepos: Repositories.List for the organization, or Repositories.Get
\* for the one repository named.
getAllRepos ==
  /\ pc = "getAllRepos"
  /\ IF repoSpec.Repo = ""
     THEN repos' = server
     ELSE /\ \E i \in 1..Len(server) : server[i].Name = repoSpec.Repo
          /\ repos' = SelectSeq(server, LAMBDA r : r.Name = repoSpec.Repo)
  /\ ri' = 1
  /\ pc' = "repo"
  /\ UNCHANGED << mode, fnVars, prVars_but_pc, repoSpec, server, pulls, pi, processed,
                  orgLog >>

\* The call failed: logging.Fatalf ends the process.
getAllRepos_Fatalf ==
  /\ pc = "getAllRepos"
  /\ log' = Append(log, Call(IF repoSpec.Repo = "" THEN "Repositories.List"
                                                   ELSE "Repositories.Get",
                             repoSpec.Repo, "", FALSE))
  /\ pc' = "fatal"
  /\ UNCHANGED << mode, fnVars, prSpec, repoClaLabelStatus, listed, prLabels, run,
                  pullRequestStatus, err, issueClaLabelStatus, decided, done, prevLog,
                  orgVars >>

\* A call processOrgRepo makes itself: PullRequests.Get for one number,
\* PullRequests.List, or GetRepoClaLabelStatus.
OrgCall(api, repo, number, ok) == [api |-> api, repo |-> repo, number |-> number, ok |-> ok]

\* PullRequests.Get answers for the numbers the repository holds.
PullRequestsGet(repo, number) ==
  \E j \in 1..Len(repo.pulls) : repo.pulls[j] = number

\* Mutant: the pull requests are listed whatever repoSpec.Pulls says.
processOrgRepo_repo_listsAll ==
  /\ pc = "repo" /\ ri <= Len(repos)
  /\ pulls' = repos[ri].pulls
  /\ orgLog' = orgLog \o << OrgCall("PullRequests.List", repos[ri].Name, 0, TRUE),
                            OrgCall("GetRepoClaLabelStatus", repos[ri].Name, 0, TRUE) >>
  /\ \E failed \in OrgGetLabelFailures :
       repoClaLabelStatus' = getRepoClaLabelStatus(repos[ri].labels, failed)
  /\ pi' = 1
  /\ pc' = "pull"
  /\ UNCHANGED << mode, fnVars, prSpec, listed, prLabels, run, pullRequestStatus, err,
                  issueClaLabelStatus, decided, done, log, prevLog,
                  repoSpec, server, repos, ri, processed >>

\* Top of the loop body for repository ri: collect its pull requests (Get
\* for each number given, the failing ones dropped; else List) and read the
\* repository's label status.
processOrgRepo_repo ==
  /\ pc = "repo" /\ ri <= Len(repos)
  /\ IF Len(repoSpec.Pulls) > 0
     THEN /\ pulls' = SelectSeq(repoSpec.Pulls, LAMBDA n : PullRequestsGet(repos[ri], n))
          /\ orgLog' = orgLog
               \o [k \in 1..Len(repoSpec.Pulls) |->
                     OrgCall("PullRequests.Get", repos[ri].Name, repoSpec.Pulls[k],
                             PullRequestsGet(repos[ri], repoSpec.Pulls[k]))]
               \o << OrgCall("GetRepoClaLabelStatus", repos[ri].Name, 0, TRUE) >>
     ELSE /\ pulls' = repos[ri].pulls
          /\ orgLog' = orgLog
               \o << OrgCall("PullRequests.List", repos[ri].Name, 0, TRUE),
                     OrgCall("GetRepoClaLabelStatus", repos[ri].Name, 0, TRUE) >>
  /\ \E failed \in OrgGetLabelFailures :
       repoClaLabelStatus' = getRepoClaLabelStatus(repos[ri].labels, failed)
  /\ pi' = 1
  /\ pc' = "pull"
  /\ UNCHANGED << mode, fnVars, prSpec, listed, prLabels, run, pullRequestStatus, err,
                  issueClaLabelStatus, decided, done, log, prevLog,
                  repoSpec, server, repos, ri, processed >>

\* PullRequests.List failed: logging.Fatalf ends the process.
\* Mutant: the repository whose pull requests cannot be listed is skipped.
processOrgRepo_Fatalf_skipsRepo ==
  /\ pc = "repo" /\ ri <= Len(repos) /\ Len(repoSpec.Pulls) = 0
  /\ log' = Append(log, Call("PullRequests.List", repos[ri].Name, "", FALSE))
  /\ ri' = ri + 1
  /\ UNCHANGED << mode, fnVars, prSpec, repoClaLabelStatus, listed, prLabels, pc, run,
                  pullRequestStatus, err, issueClaLabelStatus, decided, done, prevLog,
                  repoSpec, server, repos, pulls, pi, processed, orgLog >>

processOrgRepo_Fatalf ==
  /\ pc = "repo" /\ ri <= Len(repos) /\ Len(repoSpec.Pulls) = 0
  /\ log' = Append(log, Call("PullRequests.List", repos[ri].Name, "", FALSE))
  /\ pc' = "fatal"
  /\ UNCHANGED << mode, fnVars, prSpec, repoClaLabelStatus, listed, prLabels, run,
                  pullRequestStatus, err, issueClaLabelStatus, decided, done, prevLog,
                  orgVars >>

\* ghc.ProcessPullRequest(ghc, prSpec, claSigners, repoClaLabelStatus) for
\* pull request pi; the server holds some commits and labels for it.
processOrgRepo_call ==
  /\ pc = "pull" /\ pi <= Len(pulls)
  /\ prSpec' = SinglePullSpec(repos[ri].Name, pulls[pi], repoSpec.UpdateRepo,
                              repoSpec.UnknownAsExternal)
  /\ listed' \in OrgListCommitsResults
  /\ prLabels' \in OrgPrLabels
  /\ run' = 1
  /\ pullRequestStatus' = ZeroStatus
  /\ issueClaLabelStatus' = ZeroLabelStatus
  /\ err' = NoError
  /\ decided' = << >>
  /\ done' = 0
  /\ log' = << >>
  /\ prevLog' = << >>
  /\ pc' = "check"
  /\ UNCHANGED << mode, fnVars, repoClaLabelStatus, orgVars >>

\* Mutant: an error of ProcessPullRequest ends the loop.
processOrgRepo_returned_stopsOnError ==
  /\ pc = "return"
  /\ processed' = Append(processed, [repo |-> ri, pull |-> prSpec.Pull, err |-> err])
  /\ IF err # NoError
     THEN pc' = "done" /\ pi' = pi
     ELSE pc' = "pull" /\ pi' = pi + 1
  /\ UNCHANGED << mode, fnVars, prVars_but_pc, repoSpec, server, repos, ri, pulls,
                  orgLog >>

\* err := ghc.ProcessPullRequest(...); if err != nil { logging.Errorf(...) }
processOrgRepo_returned ==
  /\ pc = "return"
  /\ processed' = Append(processed, [repo |-> ri, pull |-> prSpec.Pull, err |-> err])
  /\ pi' = pi + 1
  /\ pc' = "pull"
  /\ UNCHANGED << mode, fnVars, prVars_but_pc, repoSpec, server, repos, ri, pulls,
                  orgLog >>

\* The pull requests of repository ri are exhausted.
processOrgRepo_nextRepo ==
  /\ pc = "pull" /\ pi > Len(pulls)
  /\ ri' = ri + 1
  /\ pc' = "repo"
  /\ UNCHANGED << mode, fnVars, prVars_but_pc, repoSpec, server, repos, pulls, pi,
                  processed, orgLog >>

\* The repositories are exhausted: processOrgRepo returns.
processOrgRepo_return ==
  /\ pc = "repo" /\ ri > Len(repos)
  /\ pc' = "done"
  /\ UNCHANGED << mode, fnVars, prVars_but_pc, orgVars >>

processOrgRepo ==
  \/ getAllRepos
  \/ getAllRepos_Fatalf
  \/ processOrgRepo_repo
  \/ processOrgRepo_Fatalf
  \/ processOrgRepo_call
  \/ processOrgRepo_returned
  \/ processOrgRepo_nextRepo
  \/ processOrgRepo_return

processPullRequest ==
  \/ CallCheckPullRequestCompliance
  \/ CallGetIssueClaLabelStatus
  \/ processPullRequest_branches
  \/ addLabel
  \/ removeLabel
  \/ addComment
  \/ processPullRequest_return

InitOrg ==
  /\ mode = "comment"
  /\ server \in Servers
  /\ \E repo \in { "", "r1" }, given \in PullsGiven, flags \in OrgFlags :
       repoSpec = [Org |-> "org", Repo |-> repo, Pulls |-> given,
                   UpdateRepo |-> flags[1], UnknownAsExternal |-> flags[2]]
  /\ prSpec = SinglePullSpec("", 0, FALSE, FALSE)
  /\ repoClaLabelStatus = ZeroLabelStatus
  /\ listed = [ok |-> FALSE, commits |-> << >>]
  /\ prLabels = { }
  /\ pc = "getAllRepos"
  /\ run = 1
  /\ pullRequestStatus = ZeroStatus
  /\ issueClaLabelStatus = ZeroLabelStatus
  /\ err = NoError
  /\ decided = << >>
  /\ done = 0
  /\ log = << >>
  /\ prevLog = << >>
  /\ repos = << >>
  /\ ri = 0
  /\ pulls = << >>
  /\ pi = 0
  /\ processed = << >>
  /\ orgLog = << >>
  /\ NoFunctionCall

NextOrg == processOrgRepo \/ processPullRequest

SpecOrg == InitOrg /\ [][NextOrg]_vars

\* ------------------------------------------- the functions, called directly
\* The tests call IsExternal, ProcessCommit, MatchAccount and
\* CanonicalizeEmail on arguments of their own. The arguments here:
\* identities that differ from john's and gil's roster entries in one field.
Login_JOHN == << "J", "D" >>
Login_gil == << "g", "i" >>
Email_JOHN == << "J", "o", "@", "x", ".", "c" >>
Email_gil == << "g", "i" >> \o gmailSuffixes[1]
Email_gil_dots == << "g", ".", "i" >> \o gmailSuffixes[1]

gil == Account("Gil", Email_gil, Login_gil)
john_login == Account("John Doe", Email_john, Login_JOHN)
john_email == Account("John Doe", Email_JOHN, Login_john)
john_name == Account("john doe", Email_john, Login_john)
gil_dots == Account("Gil", Email_gil_dots, Login_gil)

\* The sections of a roster; jane is in any of them or in none.
PeopleLists == { << >>, << john >>, << john, jane >> }
BotLists == { << >>, << bot >>, << jane >> }
CompanyLists ==
  { << >>, << Company("Acme", << carol >>) >>,
    << Company("Acme", << >>), Company("Initech", << jane, gil >>) >> }
Externals ==
  { << >>,
    << ExternalClaSigners(<< >>, << >>, << >>) >>,
    << ExternalClaSigners(<< jane >>, << >>, << >>) >>,
    << ExternalClaSigners(<< >>, << jane >>, << >>) >>,
    << ExternalClaSigners(<< >>, << >>,
                          << Company("Ext", << >>), Company("Ext2", << jane >>) >>) >>,
    << ExternalClaSigners(<< eve >>, << >>, << >>) >> }

Rosters ==
  { ClaSigners(p, b, c, e) :
      p \in PeopleLists, b \in BotLists, c \in CompanyLists, e \in Externals }

CommitIdentities ==
  { john, jane, bot, carol, eve, gil, john_login, john_email, john_name, gil_dots }

\* Commits by john and by jane and john with one thing missing: a name or
\* an email empty, a login empty, the git author or committer nil, or
\* something on either side.
IncompleteCommits ==
  UNION { { [c EXCEPT !.CommitAuthor[1].Name = ""],
            [c EXCEPT !.CommitAuthor[1].Email = << >>],
            [c EXCEPT !.Author = << << >> >>],
            [c EXCEPT !.CommitAuthor = << >>],
            [c EXCEPT !.CommitCommitter[1].Name = ""],
            [c EXCEPT !.CommitCommitter[1].Email = << >>],
            [c EXCEPT !.Committer = << << >> >>],
            [c EXCEPT !.CommitCommitter = << >>],
            [c EXCEPT !.CommitAuthor[1].Email = << >>, !.CommitCommitter[1].Name = ""],
            [c EXCEPT !.CommitAuthor = << >>, !.CommitCommitter = << >>] } :
          c \in { createCommit(john, john), createCommit(jane, john) } }

\* Commits with both GitHub accounts, with one, and with none.
IdentityCommits ==
  { createCommit(a, b) : a \in CommitIdentities, b \in CommitIdentities }
  \cup { [createCommit(a, b) EXCEPT !.Author = << >>] : a \in { john, jane }, b \in { john, jane } }
  \cup { [createCommit(a, b) EXCEPT !.Committer = << >>] : a \in { john, jane }, b \in { john, jane } }
  \cup { createCommitNoLogins(john, john), createCommitNoLogins(jane, jane) }
  \cup IncompleteCommits

\* The accounts MatchAccount is tried on: every combination of two names,
\* four emails and three logins.
MatchAccounts ==
  { Account(n, e, l) : n \in { "John Doe", "john doe" },
                       e \in { Email_john, Email_JOHN, Email_gil, Email_gil_dots },
                       l \in { Login_john, Login_JOHN, Login_jane } }

AccountLists == UNION { [1..n -> MatchAccounts] : n \in 0..MaxAccounts }

\* The emails CanonicalizeEmail is tried on: a free part followed by nothing,
\* a Gmail suffix in either letter case, both suffixes, or another domain.
EmailAlphabet == { "a", "B", ".", "@", "+" }

LocalParts == UNION { [1..n -> EmailAlphabet] : n \in 0..MaxLocalLen }

EmailTails ==
  { << >>, gmailSuffixes[1], gmailSuffixes[2],
    << "@", "G", "M", "a", "i", "l", ".", "C", "O", "M" >>,
    gmailSuffixes[1] \o gmailSuffixes[2], gmailSuffixes[2] \o gmailSuffixes[1],
    gmailSuffixes[1] \o << "." >>, << "@", "x", ".", "c" >> }

\* The golden inputs and outputs of TestCanonicalizeEmail_Gmail.
goldenInputOutput ==
  { << << "u", "s", "e", "r", "n", "a", "m", "e", "@", "g", "m", "a", "i", "l", ".", "c", "o", "m" >>,
       << "u", "s", "e", "r", "n", "a", "m", "e", "@", "g", "m", "a", "i", "l", ".", "c", "o", "m" >> >>,
    << << "u", "s", "e", "r", ".", "n", "a", "m", "e", "@", "g", "m", "a", "i", "l", ".", "c", "o", "m" >>,
       << "u", "s", "e", "r", "n", "a", "m", "e", "@", "g", "m", "a", "i", "l", ".", "c", "o", "m" >> >>,
    << << "U", "s", "e", "r", "N", "a", "m", "e", "@", "G", "m", "a", "i", "l", ".", "C", "o", "m" >>,
       << "u", "s", "e", "r", "n", "a", "m", "e", "@", "g", "m", "a", "i", "l", ".", "c", "o", "m" >> >>,
    << << "U", "s", "e", "r", ".", "N", "a", "m", "e", "@", "G", "m", "a", "i", "l", ".", "C", "o", "m" >>,
       << "u", "s", "e", "r", "n", "a", "m", "e", "@", "g", "m", "a", "i", "l", ".", "c", "o", "m" >> >>,
    << << "U", ".", "s", ".", "e", ".", "r", ".", "N", ".", "a", ".", "m", ".", "e", ".", "@", "G", "m", "a", "i", "l", ".", "C", "o", "m" >>,
       << "u", "s", "e", "r", "n", "a", "m", "e", "@", "g", "m", "a", "i", "l", ".", "c", "o", "m" >> >> }

Emails ==
  { l \o t : l \in LocalParts, t \in EmailTails } \cup { g[1] : g \in goldenInputOutput }

CallIsExternal ==
  /\ fn = "IsExternal" /\ calls = 0
  /\ result' = IsExternal(commit, claSigners, unknownAsExternal)
  /\ calls' = 1
  /\ UNCHANGED << mode, prVars, orgVars, fnArgs >>

CallProcessCommit ==
  /\ fn = "ProcessCommit" /\ calls = 0
  /\ result' = ProcessCommit(commit, claSigners)
  /\ calls' = 1
  /\ UNCHANGED << mode, prVars, orgVars, fnArgs >>

CallMatchAccount ==
  /\ fn = "MatchAccount" /\ calls = 0
  /\ result' = MatchAccount(account, accounts)
  /\ calls' = 1
  /\ UNCHANGED << mode, prVars, orgVars, fnArgs >>

\* CanonicalizeEmail on the email, then on what it returned.
CallCanonicalizeEmail ==
  /\ fn = "CanonicalizeEmail" /\ calls < MaxCalls
  /\ result' = CanonicalizeEmail(IF calls = 0 THEN email ELSE result)
  /\ calls' = calls + 1
  /\ UNCHANGED << mode, prVars, orgVars, fnArgs >>

\* No pull request is being processed.
NoPullRequest ==
  /\ mode = "comment"
  /\ prSpec = SinglePullSpec("", 0, FALSE, FALSE)
  /\ repoClaLabelStatus = ZeroLabelStatus
  /\ listed = [ok |-> FALSE, commits |-> << >>]
  /\ prLabels = { }
  /\ pc = "idle"
  /\ run = 1
  /\ pullRequestStatus = ZeroStatus
  /\ issueClaLabelStatus = ZeroLabelStatus
  /\ err = NoError
  /\ decided = << >>
  /\ done = 0
  /\ log = << >>
  /\ prevLog = << >>
  /\ repoSpec = NoRepoSpec
  /\ server = << >>
  /\ repos = << >>
  /\ ri = 0
  /\ pulls = << >>
  /\ pi = 0
  /\ processed = << >>
  /\ orgLog = << >>

InitIdentity ==
  /\ NoPullRequest
  /\ fn \in { "IsExternal", "ProcessCommit", "MatchAccount", "CanonicalizeEmail" }
  /\ IF fn \in { "IsExternal", "ProcessCommit" }
     THEN commit \in IdentityCommits /\ claSigners \in Rosters
     ELSE commit = createCommit(john, john) /\ claSigners = Roster
  /\ IF fn = "IsExternal" THEN unknownAsExternal \in BOOLEAN ELSE unknownAsExternal = FALSE
  /\ IF fn = "MatchAccount"
     THEN account \in MatchAccounts /\ accounts \in AccountLists
     ELSE account = john /\ accounts = << >>
  /\ IF fn = "CanonicalizeEmail" THEN email \in Emails ELSE email = << >>
  /\ calls = 0
  /\ result = FALSE

NextIdentity ==
  \/ CallIsExternal
  \/ CallProcessCommit
  \/ CallMatchAccount
  \/ CallCanonicalizeEmail

SpecIdentity == InitIdentity /\ [][NextIdentity]_vars

\* ============================================================== properties
WriteApis == { "AddLabelsToIssue", "RemoveLabelForIssue", "CreateComment", "CreateReview" }

Writes(l) == SelectSeq(l, LAMBDA c : c.api \in WriteApis)

AllOk(l) == \A i \in 1..Len(l) : l[i].ok

Called(l, api, arg) == \E i \in 1..Len(l) : l[i].api = api /\ l[i].arg = arg

\* The label closures called, and the label writes issued, as sets of
\* <<closure, label>>.
LabelOps(ops) ==
  { << ops[i].op, ops[i].arg >> : i \in { j \in 1..Len(ops) : ops[j].op \in { "addLabel", "removeLabel" } } }

IssuedLabelOps(l) ==
  { << IF l[i].api = "AddLabelsToIssue" THEN "addLabel" ELSE "removeLabel", l[i].arg >> :
      i \in { j \in 1..Len(l) : l[j].api \in { "AddLabelsToIssue", "RemoveLabelForIssue" } } }

NoDuplicateOps(ops) == \A i, j \in 1..Len(ops) : ops[i] = ops[j] => i = j

If(cond, op, label) == IF cond THEN { << op, label >> } ELSE { }

\* processPullRequest has returned nil.
Reconciled == mode = "comment" /\ pc = "return" /\ err = NoError

\* What the run issued is what it decided: every closure call is one API
\* call when mutation is enabled.
IssuedAsDecided ==
  /\ IssuedLabelOps(log) = LabelOps(decided)
  /\ Len(Writes(log)) = Len(decided)
  /\ (\E i \in 1..Len(log) : log[i].api = "CreateComment")
       <=> (\E i \in 1..Len(decided) : decided[i].op = "addComment")

\* C1: label reconciliation is idempotent: a second run of processPullRequest
\* with mutation enabled, after a first run in which every API call
\* succeeded, and itself with every call succeeding, issues no write.
C1_SecondRunIssuesNoWrite ==
  (/\ mode = "comment" /\ pc = "return" /\ run = 2 /\ prSpec.UpdateRepo
   /\ AllOk(prevLog) /\ AllOk(log))
  => Writes(log) = << >>

\* C2: a comment is created only in a run that issues the addition of
\* 'cla: no' or the removal of 'cla: yes' (stated for the runs in which
\* every API call succeeded).
C2_CommentOnlyWithLabelChange ==
  (mode = "comment" /\ AllOk(log) /\ \E i \in 1..Len(log) : log[i].api = "CreateComment")
  => \/ Called(log, "AddLabelsToIssue", LabelClaNo)
     \/ Called(log, "RemoveLabelForIssue", LabelClaYes)

\* C3: with UpdateRepo false no step of processPullRequest, nor of the
\* review-verdict ProcessPullRequest, issues a write or changes the labels
\* of the pull request.
C3_NoWriteWhenDisabled ==
  [][~prSpec.UpdateRepo => (Writes(log') = << >> /\ prLabels' = prLabels)]_vars

\* a run with mutation disabled that decided two or more mutations and made
\* every closure call
C3_Witness ==
  /\ ~prSpec.UpdateRepo /\ pc = "return" /\ err = NoError
  /\ Len(decided) >= 2 /\ done = Len(decided) /\ log # << >>

\* C4: on an external verdict processPullRequest adds 'cla: external' exactly
\* when it is not on the pull request and the repository defines it, removes
\* 'cla: yes' and 'cla: no' exactly when they are on the pull request (as
\* GetIssueClaLabelStatus reports it), and does nothing else: no other label
\* call, no comment, whatever Compliant and the reason are.
C4_External ==
  (Reconciled /\ pullRequestStatus.External)
  => /\ LabelOps(decided) =
          If(~issueClaLabelStatus.HasExternal /\ repoClaLabelStatus.HasExternal,
             "addLabel", LabelClaExternal)
          \cup If(issueClaLabelStatus.HasYes, "removeLabel", LabelClaYes)
          \cup If(issueClaLabelStatus.HasNo, "removeLabel", LabelClaNo)
     /\ NoDuplicateOps(decided)
     /\ \A i \in 1..Len(decided) : decided[i].op \in { "addLabel", "removeLabel" }
     /\ prSpec.UpdateRepo => IssuedAsDecided

\* an external, non-compliant verdict with a reason, on a pull request that
\* had 'cla: yes' and 'cla: no': three label writes
C4_Witness ==
  /\ Reconciled /\ pullRequestStatus.External /\ ~pullRequestStatus.Compliant
  /\ pullRequestStatus.NonComplianceReason # ""
  /\ prSpec.UpdateRepo /\ Len(Writes(log)) = 3

\* C5: on a compliant, non-external verdict processPullRequest removes
\* 'cla: no' and 'cla: external' exactly when they are on the pull request,
\* adds 'cla: yes' exactly when it is not on the pull request and the
\* repository defines it, and creates no comment.
C5_Compliant ==
  (Reconciled /\ ~pullRequestStatus.External /\ pullRequestStatus.Compliant)
  => /\ LabelOps(decided) =
          If(issueClaLabelStatus.HasNo, "removeLabel", LabelClaNo)
          \cup If(issueClaLabelStatus.HasExternal, "removeLabel", LabelClaExternal)
          \cup If(~issueClaLabelStatus.HasYes /\ repoClaLabelStatus.HasYes,
                  "addLabel", LabelClaYes)
     /\ NoDuplicateOps(decided)
     /\ \A i \in 1..Len(decided) : decided[i].op # "addComment"
     /\ prSpec.UpdateRepo => IssuedAsDecided

\* a compliant verdict on a pull request that had 'cla: no' and
\* 'cla: external': two removals and the addition of 'cla: yes'
C5_Witness ==
  /\ Reconciled /\ ~pullRequestStatus.External /\ pullRequestStatus.Compliant
  /\ prSpec.UpdateRepo /\ Len(Writes(log)) = 3
  /\ Called(log, "AddLabelsToIssue", LabelClaYes)

\* C6: on a non-compliant, non-external verdict processPullRequest adds
\* 'cla: no' exactly when it is not on the pull request and the repository
\* defines it, removes 'cla: yes' and 'cla: external' exactly when they are
\* on the pull request, and never adds 'cla: yes'.
C6_NonCompliant ==
  (Reconciled /\ ~pullRequestStatus.External /\ ~pullRequestStatus.Compliant)
  => /\ LabelOps(decided) =
          If(~issueClaLabelStatus.HasNo /\ repoClaLabelStatus.HasNo, "addLabel", LabelClaNo)
          \cup If(issueClaLabelStatus.HasYes, "removeLabel", LabelClaYes)
          \cup If(issueClaLabelStatus.HasExternal, "removeLabel", LabelClaExternal)
     /\ NoDuplicateOps(decided)
     /\ ~Called(log, "AddLabelsToIssue", LabelClaYes)
     /\ prSpec.UpdateRepo => IssuedAsDecided

\* a non-compliant verdict on a pull request that had 'cla: yes' and
\* 'cla: external': two removals, the addition of 'cla: no', the comment
C6_Witness ==
  /\ Reconciled /\ ~pullRequestStatus.External /\ ~pullRequestStatus.Compliant
  /\ prSpec.UpdateRepo /\ Len(Writes(log)) = 4
  /\ Called(log, "AddLabelsToIssue", LabelClaNo)

\* The label the verdict asks for.
DesiredLabel(status) ==
  IF status.External THEN LabelClaExternal
  ELSE IF status.Compliant THEN LabelClaYes ELSE LabelClaNo

RepoHas(repo, label) ==
  \/ label = LabelClaYes /\ repo.HasYes
  \/ label = LabelClaNo /\ repo.HasNo
  \/ label = LabelClaExternal /\ repo.HasExternal

IssueHas(issue, label) ==
  \/ label = LabelClaYes /\ issue.HasYes
  \/ label = LabelClaNo /\ issue.HasNo
  \/ label = LabelClaExternal /\ issue.HasExternal

\* C7: a CLA label is added only if the repository's label status reports
\* it; the removal of every label that is on the pull request and is not
\* the one the verdict asks for is issued whatever the repository defines.
C7_AddOnlyRepoLabels ==
  /\ \A i \in 1..Len(log) :
       log[i].api = "AddLabelsToIssue" => RepoHas(repoClaLabelStatus, log[i].arg)
  /\ \A i \in 1..Len(decided) :
       decided[i].op = "addLabel" => RepoHas(repoClaLabelStatus, decided[i].arg)
  /\ (Reconciled /\ prSpec.UpdateRepo)
     => \A l \in ClaLabels :
          (IssueHas(issueClaLabelStatus, l) /\ l # DesiredLabel(pullRequestStatus))
          => Called(log, "RemoveLabelForIssue", l)

\* the repository defines no CLA label, the pull request had 'cla: yes' and
\* the verdict is external: the removal is issued and nothing is added
C7_Witness ==
  /\ Reconciled /\ prSpec.UpdateRepo /\ pullRequestStatus.External
  /\ repoClaLabelStatus = ClaLabelStatus(FALSE, FALSE, FALSE)
  /\ ~issueClaLabelStatus.HasExternal
  /\ Called(log, "RemoveLabelForIssue", LabelClaYes)
  /\ ~\E i \in 1..Len(log) : log[i].api = "AddLabelsToIssue"

\* checkPullRequestCompliance has returned a verdict for the listed commits.
Checked ==
  mode = "comment" /\ listed.ok /\ pc \in { "labels", "decide", "apply", "return" }

NonCompliantCommits(commits) ==
  { i \in 1..Len(commits) : ~ProcessCommit(commits[i], Roster).Compliant }

NoCommitExternal ==
  \A i \in 1..Len(listed.commits) :
    ~IsExternal(listed.commits[i], Roster, prSpec.UnknownAsExternal)

Last(S) == CHOOSE i \in S : \A j \in S : j <= i

\* C8: with no external commit the pull request is compliant iff every
\* commit is, and the reason is that of the last non-compliant commit of the
\* list, or empty when there is none.
C8_LastNonCompliantReason ==
  (Checked /\ NoCommitExternal)
  => LET bad == NonCompliantCommits(listed.commits) IN
     /\ ~pullRequestStatus.External
     /\ pullRequestStatus.Compliant <=> (bad = { })
     /\ pullRequestStatus.NonComplianceReason =
          IF bad = { } THEN ""
          ELSE ProcessCommit(listed.commits[Last(bad)], Roster).NonComplianceReason

\* two non-compliant commits with different reasons: the second one's is
\* reported
C8_Witness ==
  /\ Checked /\ NoCommitExternal /\ Len(listed.commits) = 2
  /\ NonCompliantCommits(listed.commits) = { 1, 2 }
  /\ ProcessCommit(listed.commits[1], Roster).NonComplianceReason
       # ProcessCommit(listed.commits[2], Roster).NonComplianceReason
  /\ pullRequestStatus.NonComplianceReason
       = ProcessCommit(listed.commits[2], Roster).NonComplianceReason

\* C9: when ListCommits fails, checkPullRequestCompliance returns the error
\* with Compliant = false, External = false and an empty reason, and
\* processPullRequest returns that error having made no other API call.
C9_ListCommitsError ==
  ~listed.ok
  => /\ pc \in { "check", "return" }
     /\ pc = "return"
        => /\ err = ListCommitsError
           /\ pullRequestStatus = PullRequestStatus(FALSE, "", FALSE)
           /\ log = << Call("ListCommits", "", "", FALSE) >>
           /\ decided = << >>

\* processPullRequest has returned the error of a failed ListCommits
C9_Witness ==
  ~listed.ok /\ pc = "return" /\ err = ListCommitsError /\ mode = "comment"

\* ------------------------------------------------ processOrgRepo properties
\* The pull requests processOrgRepo is to process in repository r: the
\* given numbers that exist in it, or all of its pull requests.
PullsToProcess(r) ==
  IF Len(repoSpec.Pulls) > 0
  THEN SelectSeq(repoSpec.Pulls, LAMBDA n : \E j \in 1..Len(r.pulls) : r.pulls[j] = n)
  ELSE r.pulls

ReposToProcess ==
  IF repoSpec.Repo = "" THEN server
  ELSE SelectSeq(server, LAMBDA r : r.Name = repoSpec.Repo)

\* <<repository index, pull number>> of every pull request of repositories
\* i.. of rs, in order.
RECURSIVE AllPulls(_, _)
AllPulls(rs, i) ==
  IF i > Len(rs) THEN << >>
  ELSE [j \in 1..Len(PullsToProcess(rs[i])) |-> << i, PullsToProcess(rs[i])[j] >>]
       \o AllPulls(rs, i + 1)

ProcessedPulls == [i \in 1..Len(processed) |-> << processed[i].repo, processed[i].pull >>]

IsPrefix(a, b) == Len(a) <= Len(b) /\ a = SubSeq(b, 1, Len(a))

\* C10: an error of ProcessPullRequest does not stop processOrgRepo: the
\* pull requests are processed in list order, repository after repository,
\* and when processOrgRepo returns every one of them has been processed,
\* whichever of them returned an error.
C10_ErrorDoesNotStopSiblings ==
  /\ IsPrefix(ProcessedPulls, AllPulls(ReposToProcess, 1))
  /\ pc = "done" => ProcessedPulls = AllPulls(ReposToProcess, 1)
  /\ (pc = "return" /\ err # NoError) => Len(processed) < Len(AllPulls(ReposToProcess, 1))

\* processOrgRepo has returned; a pull request returned an error, and a
\* later one of the same repository and one of a later repository were
\* processed after it
C10_Witness ==
  /\ pc = "done"
  /\ \E i, j, k \in 1..Len(processed) :
       /\ i < j /\ j < k
       /\ processed[i].err # NoError
       /\ processed[j].repo = processed[i].repo
       /\ processed[k].repo > processed[i].repo

\* ------------------------------------------------------- errors of the API
Failed(l, apis) == \E i \in 1..Len(l) : l[i].api \in apis /\ ~l[i].ok

\* The writes of a log, as <<api, label, body>>, whatever their outcome.
WriteKeys(l) ==
  { << l[i].api, l[i].arg, l[i].body >> : i \in { j \in 1..Len(l) : l[j].api \in WriteApis } }

FailedWriteKeys(l) ==
  { << l[i].api, l[i].arg, l[i].body >> :
      i \in { j \in 1..Len(l) : l[j].api \in WriteApis /\ ~l[j].ok } }

\* C11: a pull request whose labels could not be read (ListLabelsByIssue
\* failed) is skipped for the run: no label is added or removed and no
\* comment is created for it.
C11_LabelReadErrorSkipsPullRequest ==
  (mode = "comment" /\ Failed(log, { "ListLabelsByIssue" })) => Writes(log) = << >>

RepositoryReads == { "Repositories.List", "Repositories.Get", "PullRequests.List" }

\* C12 as stated: a failing repository lookup / listing, or a failing
\* listing of the pull requests of a repository, does not halt the run.
C12_RepositoryErrorDoesNotHalt == pc # "fatal"

\* The repositories before repository i, with their pull requests.
ReposBefore(i) == SubSeq(ReposToProcess, 1, i - 1)

\* C12 as amended: a failing Repositories.List / Repositories.Get or
\* PullRequests.List ends the process at once (logging.Fatalf): the process
\* is halted whenever such a read has failed, and what was processed is then
\* exactly the pull requests of the repositories before the failing one.
C12_RepositoryErrorHalts ==
  /\ Failed(log, RepositoryReads) => pc = "fatal"
  /\ pc = "fatal"
     => /\ Failed(log, RepositoryReads)
        /\ ProcessedPulls = (IF ri = 0 THEN << >> ELSE AllPulls(ReposBefore(ri), 1))

\* the pull requests of the second repository could not be listed, after a
\* pull request of the first one was processed
C12_Witness ==
  /\ pc = "fatal" /\ ri = 2 /\ processed # << >>
  /\ Failed(log, { "PullRequests.List" })

\* C13: a failing write is swallowed. When processPullRequest returns after
\* a successful ListCommits it returns nil, has made every closure call it
\* decided (one API call each when mutation is enabled) whatever failed, and
\* processOrgRepo records the nil and goes on: when it returns, every pull
\* request has been processed.
C13_WriteErrorsSwallowed ==
  /\ (pc = "return" /\ listed.ok)
     => /\ err = NoError
        /\ decided = processPullRequest_calls(pullRequestStatus, issueClaLabelStatus,
                                              repoClaLabelStatus)
        /\ done = Len(decided)
        /\ prSpec.UpdateRepo => Len(Writes(log)) = Len(decided)
  /\ (pc = "pull" /\ pi > 1 /\ Failed(log, WriteApis))
     => processed[Len(processed)] = [repo |-> ri, pull |-> pulls[pi - 1], err |-> NoError]
  /\ pc = "done" => ProcessedPulls = AllPulls(ReposToProcess, 1)

\* the first of three writes for a pull request failed, the other two were
\* issued all the same, and processOrgRepo is about to process the next pull
\* request of the repository
C13_Witness ==
  /\ pc = "pull" /\ pi > 1 /\ pi <= Len(pulls)
  /\ Len(Writes(log)) = 3 /\ ~Writes(log)[1].ok
  /\ Writes(log)[3].api = "CreateComment"
  /\ processed[Len(processed)].err = NoError

\* C14: a write that failed in one run is made up for by the next: after a
\* first run in which the reads succeeded and some write failed, a second
\* run in which every call succeeds issues exactly the writes that failed in
\* the first, and no others.
C14_NextRunReissuesFailedWrites ==
  (/\ mode = "comment" /\ pc = "return" /\ run = 2 /\ prSpec.UpdateRepo
   /\ ~Failed(prevLog, { "ListCommits", "ListLabelsByIssue" })
   /\ Failed(prevLog, WriteApis)
   /\ AllOk(log))
  => WriteKeys(log) = FailedWriteKeys(prevLog)

\* ------------------------------------------- properties of the functions
\* The logins a commit carries.
CommitLogins(c) == { l \in { AuthorLogin(c), CommitterLogin(c) } : l # << >> }

Logins(accts) == { accts[i].Login : i \in 1..Len(accts) }

CompanyLogins(companies) == UNION { Logins(companies[k].People) : k \in 1..Len(companies) }

\* The logins of the external section, and of the main roster.
ExternalLogins(cs) ==
  IF cs.External = << >> THEN { }
  ELSE Logins(cs.External[1].People) \cup Logins(cs.External[1].Bots)
       \cup CompanyLogins(cs.External[1].Companies)

MainLogins(cs) == Logins(cs.People) \cup Logins(cs.Bots) \cup CompanyLogins(cs.Companies)

IsExternalReturned == fn = "IsExternal" /\ calls = 1

\* C15: IsExternal returns true for every commit one of whose logins is the
\* login of an account of external.people, external.bots or an external
\* company, whatever unknownAsExternal is and whatever the main roster
\* lists.
C15_ExternalLoginIsExternal ==
  (IsExternalReturned /\ CommitLogins(commit) \cap ExternalLogins(claSigners) # { })
  => result = TRUE

\* a login of the commit is both in the main roster's people and in the
\* external section, unknownAsExternal is false, and the commit is external
C15_Witness ==
  /\ IsExternalReturned /\ ~unknownAsExternal /\ result = TRUE
  /\ \E l \in CommitLogins(commit) :
       l \in ExternalLogins(claSigners) /\ l \in Logins(claSigners.People)

\* C16 as stated: for a commit that carries some login absent from every
\* roster section, IsExternal returns unknownAsExternal.
C16_SomeLoginUnlisted ==
  (/\ IsExternalReturned
   /\ \E l \in CommitLogins(commit) :
        l \notin ExternalLogins(claSigners) \cup MainLogins(claSigners))
  => result = unknownAsExternal

\* C16 as amended: for a commit that carries a login and none of whose
\* logins is in any roster section, IsExternal returns unknownAsExternal.
C16_EveryLoginUnlisted ==
  (/\ IsExternalReturned
   /\ CommitLogins(commit) # { }
   /\ CommitLogins(commit) \cap (ExternalLogins(claSigners) \cup MainLogins(claSigners)) = { })
  => result = unknownAsExternal

\* two logins, neither in a roster with people, bots, a company and an
\* external section; unknownAsExternal is true and the commit is external
C16_Witness ==
  /\ IsExternalReturned /\ unknownAsExternal /\ result = TRUE
  /\ Cardinality(CommitLogins(commit)) = 2
  /\ CommitLogins(commit) \cap (ExternalLogins(claSigners) \cup MainLogins(claSigners)) = { }
  /\ ExternalLogins(claSigners) # { } /\ claSigners.People # << >>
  /\ claSigners.Bots # << >> /\ claSigners.Companies # << >>

\* C17: when no login of the commit is in the external section, IsExternal
\* returns false as soon as one login of the commit is in the main roster's
\* people, bots or a company, even with unknownAsExternal; it returns true
\* only with unknownAsExternal and none of the logins in the main roster.
C17_ListedLoginIsNotExternal ==
  (IsExternalReturned /\ CommitLogins(commit) \cap ExternalLogins(claSigners) = { })
  => /\ CommitLogins(commit) \cap MainLogins(claSigners) # { } => result = FALSE
     /\ result = TRUE
        => unknownAsExternal /\ CommitLogins(commit) \cap MainLogins(claSigners) = { }

\* unknownAsExternal is true, one login of the commit is listed only in a
\* company, the other one nowhere, and the commit is not external
C17_Witness ==
  /\ IsExternalReturned /\ unknownAsExternal /\ result = FALSE
  /\ CommitLogins(commit) \cap ExternalLogins(claSigners) = { }
  /\ \E l, u \in CommitLogins(commit) :
       /\ l \in CompanyLogins(claSigners.Companies)
       /\ l \notin Logins(claSigners.People) \cup Logins(claSigners.Bots)
       /\ u \notin MainLogins(claSigners)

MatchAccountReturned == fn = "MatchAccount" /\ calls = 1

\* The emails and the logins of MatchAccounts that are the same up to letter
\* case and, for a Gmail address, periods, written out.
SameEmails == { { Email_john, Email_JOHN }, { Email_gil, Email_gil_dots } }

SameLogins == { { Login_john, Login_JOHN }, { Login_jane } }

\* C18: MatchAccount returns true iff some entry has the account's name
\* exactly, an email with the same canonical form and a login equal up to
\* letter case; so it is true when the account's own fields are listed with
\* the login in another letter case, and false when every entry differs in
\* the name, were it in letter case only.
C18_MatchAccount ==
  MatchAccountReturned
  => /\ result <=> \E i \in 1..Len(accounts) :
                     /\ accounts[i].Name = account.Name
                     /\ \E E \in SameEmails : { accounts[i].Email, account.Email } \subseteq E
                     /\ \E L \in SameLogins : { accounts[i].Login, account.Login } \subseteq L
     /\ (\E i \in 1..Len(accounts) :
           /\ accounts[i].Name = account.Name /\ accounts[i].Email = account.Email
           /\ { accounts[i].Login, account.Login } \subseteq { Login_john, Login_JOHN })
        => result = TRUE
     /\ (\A i \in 1..Len(accounts) : accounts[i].Name # account.Name) => result = FALSE

\* the second entry has the account's name, its login in another letter
\* case and its Gmail address without the period; the first has its name in
\* another letter case: MatchAccount returns true
C18_Witness ==
  /\ MatchAccountReturned /\ result = TRUE /\ Len(accounts) = 2
  /\ accounts[1] = [account EXCEPT !.Name = "john doe"]
  /\ accounts[2].Login # account.Login
  /\ account.Email = Email_gil_dots /\ accounts[2].Email = Email_gil

\* The people an author may match, and those a committer may match.
AuthorRoster(cs) ==
  { cs.People } \cup { cs.Companies[k].People : k \in 1..Len(cs.Companies) }

CommitterRoster(cs) == AuthorRoster(cs) \cup { cs.Bots }

CommitAuthorAccount(c) ==
  IF c.CommitAuthor = << >> THEN Account("", << >>, AuthorLogin(c))
  ELSE Account(c.CommitAuthor[1].Name, c.CommitAuthor[1].Email, AuthorLogin(c))

CommitCommitterAccount(c) ==
  IF c.CommitCommitter = << >> THEN Account("", << >>, CommitterLogin(c))
  ELSE Account(c.CommitCommitter[1].Name, c.CommitCommitter[1].Email, CommitterLogin(c))

\* C19: ProcessCommit judges a commit compliant whenever its author and its
\* committer each match a roster entry under MatchAccount.
C19_ProcessCommitMatchesAsMatchAccount ==
  (/\ fn = "ProcessCommit" /\ calls = 1
   /\ AuthorLogin(commit) # << >> /\ CommitterLogin(commit) # << >>
   /\ \E as \in AuthorRoster(claSigners) : MatchAccount(CommitAuthorAccount(commit), as)
   /\ \E as \in CommitterRoster(claSigners) :
        MatchAccount(CommitCommitterAccount(commit), as))
  => result.Compliant

\* C20: CanonicalizeEmail is idempotent: applied to what it returned, it
\* returns the same.
C20_CanonicalizeEmailIdempotent ==
  (fn = "CanonicalizeEmail" /\ calls >= 2) => result = CanonicalizeEmail(email)

\* an email with several '@', both Gmail suffixes, capitals and periods,
\* canonicalized twice
C20_Witness ==
  /\ fn = "CanonicalizeEmail" /\ calls = 2
  /\ HasSuffix(email, gmailSuffixes[2] \o gmailSuffixes[1])
  /\ \E i, j \in 1..MaxLocalLen : email[i] = "." /\ email[j] = "B"
  /\ result # email

\* The Gmail suffixes a lower-cased email ends in.
SuffixesOf(lower) == { k \in 1..Len(gmailSuffixes) : HasSuffix(lower, gmailSuffixes[k]) }

Front(str, suffix) == SubSeq(str, 1, Len(str) - Len(suffix))

WithoutDots(str) == SelectSeq(str, LAMBDA c : c # ".")

\* Two emails of the Gmail family that differ in letter case and in periods
\* before the suffix only.
SameGmailAddress(e1, e2) ==
  \E k \in 1..Len(gmailSuffixes) :
    /\ HasSuffix(ToLower(e1), gmailSuffixes[k]) /\ HasSuffix(ToLower(e2), gmailSuffixes[k])
    /\ WithoutDots(Front(ToLower(e1), gmailSuffixes[k]))
         = WithoutDots(Front(ToLower(e2), gmailSuffixes[k]))

ToUpper(str) ==
  [i \in 1..Len(str) |->
     IF \E k \in 1..Len(LowerCase) : LowerCase[k] = str[i]
     THEN UpperCase[CHOOSE k \in 1..Len(LowerCase) : LowerCase[k] = str[i]]
     ELSE str[i]]

\* Emails written differently from the given one in letter case and in
\* periods of the free part: all small, all capital, a period put in front,
\* the periods of the free part taken out; and the emails of the test.
Variants(e) ==
  { ToLower(e), ToUpper(e), << "." >> \o e }
  \cup { WithoutDots(SubSeq(e, 1, Len(e) - Len(gmailSuffixes[k])))
           \o SubSeq(e, Len(e) - Len(gmailSuffixes[k]) + 1, Len(e)) :
           k \in SuffixesOf(ToLower(e)) }
  \cup { g[1] : g \in goldenInputOutput }

\* C21: CanonicalizeEmail returns the lower-cased email, with every period
\* before the suffix removed exactly when the lower-cased email ends in
\* '@gmail.com' or '@googlemail.com' (nothing else is removed); it returns
\* what the test's golden table says; and every email that differs from a
\* Gmail-family email in letter case and such periods only has the same
\* canonical form and matches it under MatchAccount.
C21_CanonicalizeEmail ==
  (fn = "CanonicalizeEmail" /\ calls = 1)
  => LET lower == ToLower(email) IN
     /\ SuffixesOf(lower) = { } => result = lower
     /\ \A k \in SuffixesOf(lower) :
          /\ HasSuffix(result, gmailSuffixes[k])
          /\ Front(result, gmailSuffixes[k]) = WithoutDots(Front(lower, gmailSuffixes[k]))
     /\ \A g \in goldenInputOutput : email = g[1] => result = g[2]
     /\ \A e \in Variants(email) :
          SameGmailAddress(email, e)
          => /\ CanonicalizeEmail(e) = result
             /\ MatchAccount(Account("Jane Doe", email, Login_jane),
                             << Account("Jane Doe", e, Login_jane) >>)

\* a Gmail address with capitals and periods canonicalized: both went away,
\* and the same email written otherwise has the same canonical form
C21_Witness ==
  /\ fn = "CanonicalizeEmail" /\ calls = 1
  /\ SuffixesOf(ToLower(email)) # { }
  /\ \E i, j \in 1..Len(email) : email[i] = "." /\ email[j] = "B"
  /\ Len(result) < Len(email) /\ result # ToLower(email)
  /\ \E e \in Variants(email) : e # email /\ SameGmailAddress(email, e)

\* ------------------------------------------------------ the review verdict
Reviews(l) == SelectSeq(l, LAMBDA c : c.api = "CreateReview")

\* A run of the review-verdict ProcessPullRequest, mutation enabled, has
\* computed a verdict and returned.
ReviewRun == mode = "review" /\ pc = "return" /\ listed.ok /\ prSpec.UpdateRepo

\* The one review the verdict on the listed commits asks for.
ExpectedReview ==
  LET bad == NonCompliantCommits(listed.commits) IN
  IF bad = { } THEN << ReviewApprove, "" >>
  ELSE << ReviewRequestChanges,
          ProcessCommit(listed.commits[Last(bad)], Roster).NonComplianceReason >>

OneReviewAsExpected ==
  /\ Len(Reviews(log)) = 1
  /\ << Reviews(log)[1].arg, Reviews(log)[1].body >> = ExpectedReview

\* C22 as stated: every run that computes a verdict submits exactly one
\* review, APPROVE or REQUEST_CHANGES with the reason, whatever labels the
\* repository defines.
C22_ReviewWhateverRepoLabels == ReviewRun => OneReviewAsExpected

\* C22 as amended: when the repository defines both 'cla: yes' and
\* 'cla: no', every run that computes a verdict submits exactly one review,
\* APPROVE when every commit is compliant and REQUEST_CHANGES with the
\* reason otherwise, whether or not a label is added or removed in the run;
\* when the repository lacks one of the two labels the run submits no
\* review and makes no other call.
C22_ReviewWhenRepoHasBothLabels ==
  ReviewRun
  => IF repoClaLabelStatus.HasYes /\ repoClaLabelStatus.HasNo
     THEN OneReviewAsExpected
     ELSE log = << Call("ListCommits", "", "", TRUE) >>

\* a second run on a non-compliant pull request whose labels the first run
\* put right: no label call, and the review once more
C22_Witness ==
  /\ ReviewRun /\ run = 2
  /\ Len(Reviews(prevLog)) = 1 /\ Len(Writes(prevLog)) = 3
  /\ Len(Writes(log)) = 1 /\ OneReviewAsExpected
  /\ Reviews(log)[1].arg = ReviewRequestChanges /\ Reviews(log)[1].body # ""

\* ------------------------------------------- the order of processOrgRepo
\* A call of ProcessPullRequest is in progress.
InProgress == pc \in { "check", "labels", "decide", "apply", "return" }

\* The calls processOrgRepo made for the repository of index i.
OrgCalls(i, api) ==
  SelectSeq(orgLog, LAMBDA c : c.repo = repos[i].Name /\ c.api = api)

Numbers(calls_) == [k \in 1..Len(calls_) |-> calls_[k].number]

\* The pull requests collected for repository i: those fetched, or the
\* listing.
Fetched(i) ==
  IF Len(repoSpec.Pulls) > 0
  THEN Numbers(SelectSeq(OrgCalls(i, "PullRequests.Get"), LAMBDA c : c.ok))
  ELSE repos[i].pulls

\* The pull requests of repository i whose processing has returned.
ProcessedIn(i) ==
  LET of_i == SelectSeq(processed, LAMBDA p : p.repo = i) IN
  [k \in 1..Len(of_i) |-> of_i[k].pull]

\* The repositories whose pull requests have been collected.
ReposEntered == { i \in 1..Len(repos) : i < ri \/ (i = ri /\ pc \notin { "repo", "fatal" }) }

ProcessedInOrder ==
  /\ \A a, b \in 1..Len(processed) : a < b => processed[a].repo <= processed[b].repo
  /\ \A i \in 1..Len(repos) :
       IF i \in ReposEntered
       THEN /\ Len(OrgCalls(i, "GetRepoClaLabelStatus")) = 1
            /\ IF Len(repoSpec.Pulls) > 0
               THEN /\ Numbers(OrgCalls(i, "PullRequests.Get")) = repoSpec.Pulls
                    /\ OrgCalls(i, "PullRequests.List") = << >>
               ELSE /\ OrgCalls(i, "PullRequests.Get") = << >>
                    /\ Len(OrgCalls(i, "PullRequests.List")) = 1
            /\ IsPrefix(ProcessedIn(i), Fetched(i))
            /\ i < ri => ProcessedIn(i) = Fetched(i)
       ELSE /\ ProcessedIn(i) = << >>
            /\ \A c \in { orgLog[k] : k \in 1..Len(orgLog) } : c.repo # repos[i].Name
  /\ InProgress
     => /\ prSpec = SinglePullSpec(repos[ri].Name, Fetched(ri)[Len(ProcessedIn(ri)) + 1],
                                  repoSpec.UpdateRepo, repoSpec.UnknownAsExternal)
        /\ Len(ProcessedIn(ri)) = pi - 1

\* The label status passed along changes only where it is read.
LabelStatusReadOnly ==
  repoClaLabelStatus' # repoClaLabelStatus
  => /\ Len(orgLog') > Len(orgLog)
     /\ orgLog'[Len(orgLog')].api = "GetRepoClaLabelStatus"

\* C23: processOrgRepo processes the pull requests one after another, each
\* once: the numbers given are fetched one by one, nothing is listed, and
\* those fetched are processed in the order given; with no number given the
\* listing is processed in list order.  The label status is read once per
\* repository, and that value with the two flags of repoSpec goes to every
\* pull request of the repository.
C23_OneAfterAnother == []ProcessedInOrder /\ [][LabelStatusReadOnly]_vars

\* two repositories, pull requests 2 and 1 asked for: both processed in
\* that order in the first, only 1 could be fetched in the second
C23_Witness ==
  /\ pc = "done" /\ repoSpec.Pulls = << 2, 1 >> /\ Len(repos) = 2
  /\ ProcessedPulls = << << 1, 2 >>, << 1, 1 >>, << 2, 1 >> >>
  /\ \E k \in 1..Len(orgLog) : orgLog[k].api = "PullRequests.Get" /\ ~orgLog[k].ok

\* ------------------------------------------ the first external commit
ExternalCommits(commits) ==
  { i \in 1..Len(commits) : IsExternal(commits[i], Roster, prSpec.UnknownAsExternal) }

First(S) == CHOOSE i \in S : \A j \in S : i <= j

\* The commits before the first external one; all of them when none is.
BeforeFirstExternal(commits) ==
  IF ExternalCommits(commits) = { } THEN commits
  ELSE SubSeq(commits, 1, First(ExternalCommits(commits)) - 1)

AuthorIncomplete(c) ==
  LET a == CommitAuthorAccount(c) IN a.Name = "" \/ a.Email = << >> \/ a.Login = << >>

CommitterIncomplete(c) ==
  LET a == CommitCommitterAccount(c) IN a.Name = "" \/ a.Email = << >> \/ a.Login = << >>

\* C25: a commit with any of the six identity fields missing or empty is
\* non-compliant whatever the roster; the reason is the committer's identity
\* message when the committer's side is incomplete, and the author's only
\* when the author's side alone is.
C25_IncompleteIdentity ==
  (/\ fn = "ProcessCommit" /\ calls = 1
   /\ AuthorIncomplete(commit) \/ CommitterIncomplete(commit))
  => result = CommitStatus(FALSE,
                           IF CommitterIncomplete(commit) THEN ReasonCommitterIdentity
                           ELSE ReasonAuthorIdentity,
                           FALSE)

\* both sides incomplete, otherwise the commit of a signer: the committer's
\* message is the one returned
C25_Witness ==
  /\ fn = "ProcessCommit" /\ calls = 1
  /\ AuthorIncomplete(commit) /\ CommitterIncomplete(commit)
  /\ commit.CommitAuthor # << >> /\ commit.CommitAuthor[1].Name = john.Name
  /\ claSigners.People = << john >>
  /\ result = CommitStatus(FALSE, ReasonCommitterIdentity, FALSE)

\* The account is an entry of one of the lists, field for field as
\* ProcessCommit compares them.
Listed(a, lists) == \E l \in lists : \E i \in 1..Len(l) : l[i] = a

AuthorListed == Listed(CommitAuthorAccount(commit), AuthorRoster(claSigners))

CommitterListed == Listed(CommitCommitterAccount(commit), CommitterRoster(claSigners))

\* C26: with the six identity fields present, ProcessCommit returns
\* Compliant = author listed and committer listed; the reason is empty when
\* both are, the 'Committer ... not listed' message whenever the committer
\* is not, and the 'Author ... not listed' message when the author alone is
\* not.  (Listed: an entry with the same name, email and login; whether that
\* comparison is the right one is C19's matter.)
C26_BothListed ==
  (/\ fn = "ProcessCommit" /\ calls = 1
   /\ ~AuthorIncomplete(commit) /\ ~CommitterIncomplete(commit))
  => result = CommitStatus(AuthorListed /\ CommitterListed,
                           IF ~CommitterListed THEN ReasonCommitterNotListed
                           ELSE IF ~AuthorListed THEN ReasonAuthorNotListed
                           ELSE "",
                           FALSE)

\* neither the author nor the committer of the commit is listed, and the
\* roster is not empty: the committer's message is returned
C26_Witness ==
  /\ fn = "ProcessCommit" /\ calls = 1
  /\ ~AuthorIncomplete(commit) /\ ~CommitterIncomplete(commit)
  /\ CommitAuthorAccount(commit) # CommitCommitterAccount(commit)
  /\ ~AuthorListed /\ ~CommitterListed /\ claSigners.People # << >>
  /\ result = CommitStatus(FALSE, ReasonCommitterNotListed, FALSE)

\* C27: a committer listed among the bots is accepted, an author listed
\* among the bots alone is not, so the commit a bot authored is
\* non-compliant; author and committer listed in people or in a company's
\* people are accepted, also as two different entries of one company.
C27_BotsMayCommitNotAuthor ==
  (/\ fn = "ProcessCommit" /\ calls = 1
   /\ ~AuthorIncomplete(commit) /\ ~CommitterIncomplete(commit))
  => LET author == CommitAuthorAccount(commit)
         committer == CommitCommitterAccount(commit)
         people == { claSigners.People }
                   \cup { claSigners.Companies[k].People : k \in 1..Len(claSigners.Companies) }
         bots == { claSigners.Bots }
     IN /\ (Listed(author, people) /\ Listed(committer, people \cup bots))
             => result.Compliant
        /\ (Listed(author, bots) /\ ~Listed(author, people))
             => /\ ~result.Compliant
                /\ Listed(committer, people \cup bots) => result.NonComplianceReason = ReasonAuthorNotListed
        /\ \A k \in 1..Len(claSigners.Companies) :
             (Listed(author, { claSigners.Companies[k].People })
              /\ Listed(committer, { claSigners.Companies[k].People }))
             => result = CommitStatus(TRUE, "", FALSE)

\* the commit a bot authored and a signer committed: the bot is listed among
\* the bots only, and the author is reported as not listed
C27_Witness ==
  /\ fn = "ProcessCommit" /\ calls = 1
  /\ ~AuthorIncomplete(commit) /\ ~CommitterIncomplete(commit)
  /\ Listed(CommitAuthorAccount(commit), { claSigners.Bots })
  /\ ~Listed(CommitAuthorAccount(commit), AuthorRoster(claSigners))
  /\ Listed(CommitCommitterAccount(commit), AuthorRoster(claSigners))
  /\ result = CommitStatus(FALSE, ReasonAuthorNotListed, FALSE)

\* ------------------------------------------ the labels after a clean run
\* C28: after a run of processPullRequest with no read error, mutation
\* enabled and every write succeeding, the pull request carries at most one
\* of the three CLA labels, whatever it carried before; it carries the label
\* of the verdict, and no other, whenever the repository defines that label
\* or the pull request had it already.
C28_AtMostOneClaLabel ==
  (Reconciled /\ prSpec.UpdateRepo /\ AllOk(log))
  => LET want == DesiredLabel(pullRequestStatus) IN
     /\ Cardinality(prLabels \cap ClaLabels) <= 1
     /\ (RepoHas(repoClaLabelStatus, want) \/ IssueHas(issueClaLabelStatus, want))
          => prLabels = { want }
     /\ prLabels \subseteq { want }

\* the pull request carried the three labels, the verdict is non-compliant:
\* 'cla: no' alone is left
C28_Witness ==
  /\ Reconciled /\ prSpec.UpdateRepo /\ AllOk(log) /\ run = 1
  /\ issueClaLabelStatus = ClaLabelStatus(TRUE, TRUE, TRUE)
  /\ ~pullRequestStatus.External /\ ~pullRequestStatus.Compliant
  /\ Len(Writes(log)) >= 2
  /\ prLabels = { LabelClaNo }

\* ------------------------------------------- commits without any account
\* The commits of the list with neither an author nor a committer login.
NoLoginCommits(commits) ==
  { i \in 1..Len(commits) : AuthorLogin(commits[i]) = << >> /\ CommitterLogin(commits[i]) = << >> }

\* The commits with a login on one side at least and something missing.
OtherIncompleteCommits(commits) ==
  { i \in 1..Len(commits) :
      /\ i \notin NoLoginCommits(commits)
      /\ AuthorIncomplete(commits[i]) \/ CommitterIncomplete(commits[i]) }

IdentityReasons == { ReasonAuthorIdentity, ReasonCommitterIdentity }

\* C29: with UnknownAsExternal a commit with neither login is external by
\* IsExternal, the pull request is reported external, and no 'verify the
\* ... identity' reason is reported for that commit; without the flag, and
\* with no external entry matching, the commit is not external, is judged
\* non-compliant for its identity, and a pull request with no external
\* commit is non-compliant.
C29_UnknownCommitIsExternal ==
  (Checked /\ NoLoginCommits(listed.commits) # { })
  => LET commits == listed.commits
         unknown == NoLoginCommits(commits) IN
     IF prSpec.UnknownAsExternal
     THEN /\ unknown \subseteq ExternalCommits(commits)
          /\ pullRequestStatus.External
          /\ OtherIncompleteCommits(commits) = { }
               => pullRequestStatus.NonComplianceReason \notin IdentityReasons
     ELSE /\ unknown \cap ExternalCommits(commits) = { }
          /\ \A i \in unknown :
               /\ ~ProcessCommit(commits[i], Roster).Compliant
               /\ ProcessCommit(commits[i], Roster).NonComplianceReason \in IdentityReasons
          /\ ExternalCommits(commits) = { } => ~pullRequestStatus.Compliant

\* a signer's commit followed by a commit without any account, flag set:
\* the pull request is external and nothing is held against it
C29_Witness ==
  /\ Checked /\ prSpec.UnknownAsExternal
  /\ Len(listed.commits) = 2 /\ NoLoginCommits(listed.commits) = { 2 }
  /\ pullRequestStatus = PullRequestStatus(TRUE, "", TRUE)

\* ------------------------------------------------- no commit at all
\* C30: a pull request whose commit list is retrieved and is empty is
\* compliant, with an empty reason, and not external; reconciliation then
\* does what it does for a compliant pull request: with mutation enabled and
\* every call succeeding, 'cla: yes' is the one CLA label left on it when
\* the repository defines it, and the review-verdict version, on a
\* repository with 'cla: yes' and 'cla: no', leaves 'cla: yes' and submits
\* one APPROVE review with an empty body.
C30_NoCommitIsCompliant ==
  (listed.ok /\ listed.commits = << >> /\ pc = "return")
  => /\ err = NoError
     /\ pullRequestStatus = PullRequestStatus(TRUE, "", FALSE)
     /\ (prSpec.UpdateRepo /\ AllOk(log))
        => IF mode = "comment"
           THEN repoClaLabelStatus.HasYes => prLabels = { LabelClaYes }
           ELSE (repoClaLabelStatus.HasYes /\ repoClaLabelStatus.HasNo)
                => /\ LabelClaYes \in prLabels /\ LabelClaNo \notin prLabels
                   /\ Reviews(log) = << Call("CreateReview", ReviewApprove, "", TRUE) >>

\* no commit, a pull request labelled 'cla: no': the label is replaced by
\* 'cla: yes'
C30_Witness ==
  /\ mode = "comment" /\ listed.ok /\ listed.commits = << >> /\ pc = "return"
  /\ prSpec.UpdateRepo /\ AllOk(log)
  /\ pullRequestStatus = PullRequestStatus(TRUE, "", FALSE)
  /\ issueClaLabelStatus = ClaLabelStatus(FALSE, TRUE, FALSE)
  /\ Called(log, "AddLabelsToIssue", LabelClaYes)
  /\ prLabels = { LabelClaYes }

====
